---- MODULE Spec2Model ----
(***************************************************************************)
(* The market ingestion and normalisation pipeline of polymotion:          *)
(* normalizeMarket (Gamma fetch layer), processRealMarketData (current and *)
(* older variant), MarketAnalyzer.categorizeMarket and                     *)
(* MarketAnalyzer.filterAndSortMarkets.                                    *)
(*                                                                         *)
(* Representation.                                                         *)
(*  - A JavaScript value is a record [t, n, s]: t is the result of typeof  *)
(*    ("undefined", "null" for null, "nan" for the number NaN), n the      *)
(*    numeric payload and s the string payload.                            *)
(*  - A JavaScript string is a sequence of one-character strings, so that  *)
(*    toLowerCase, includes and parseFloat are computed on the characters. *)
(*  - A price is a fixed-point integer in units of 1/Scale; Scale is one   *)
(*    decimal finer than the 4 decimals the code rounds to, so toFixed(4)  *)
(*    is a real rounding.  A volume is a fixed-point integer in cents.     *)
(***************************************************************************)
EXTENDS Integers, Sequences, FiniteSets, TLC

VARIABLES
  pc,         \* "fetched": raw Gamma markets wait for normalizeMarket;
              \* "ready": markets wait for processRealMarketData; "analyzed": analyzed
              \* markets wait for filterAndSortMarkets; "done": a call returned or threw
  gamma,      \* the raw Gamma market handed to normalizeMarket
  markets,    \* the argument of processRealMarketData / filterAndSortMarkets
  random,     \* the values the next calls of Math.random() return
  processed,  \* the sequence the call returned
  thrown,     \* "none", or the exception the call raised
  ran,        \* which function produced `processed`
  options,    \* the options argument of filterAndSortMarkets
  previous,   \* the sequence the call before the last one returned; in the
              \* Dashboard, its market list when the run in flight started
  now,        \* the instant new Date() returns, in seconds since 1970
  priceHistory, \* the priceHistory argument of processMarket
  response,   \* how the request of the run in flight ends
  fetched,    \* what fetchMarkets returned or threw to fetchMarketData
  dashboard,  \* the state of the Dashboard component
  inFlight    \* the number of fetchMarketData calls that have not returned yet

vars == <<pc, gamma, markets, random, processed, thrown, ran, options,
          previous, now, priceHistory, response, fetched, dashboard, inFlight>>

(***************************************************************************)
(* JavaScript values                                                       *)
(***************************************************************************)
Scale == 100000
One == Scale
Half == Scale \div 2

Undefined == [t |-> "undefined", n |-> 0, s |-> <<>>]
Null == [t |-> "null", n |-> 0, s |-> <<>>]
NaN == [t |-> "nan", n |-> 0, s |-> <<>>]
Num(x) == [t |-> "number", n |-> x, s |-> <<>>]
Str(chars) == [t |-> "string", n |-> 0, s |-> chars]
Bool(b) == [t |-> "boolean", n |-> IF b THEN 1 ELSE 0, s |-> <<>>]
True == Bool(TRUE)
False == Bool(FALSE)

\* ToBoolean: what `if (v)`, `!v`, `v || w` and `v && w` test.
Truthy(v) ==
  CASE v.t \in {"undefined", "null", "nan"} -> FALSE
    [] v.t = "boolean" -> v.n = 1
    [] v.t = "number" -> v.n # 0
    [] v.t = "string" -> v.s # <<>>
    [] OTHER -> TRUE

\* v || w
OrElse(v, w) == IF Truthy(v) THEN v ELSE w

Abs(x) == IF x < 0 THEN -x ELSE x
Min2(a, b) == IF a <= b THEN a ELSE b
Max2(a, b) == IF a >= b THEN a ELSE b

RECURSIVE SeqMax(_)
SeqMax(xs) == IF Len(xs) = 1 THEN xs[1] ELSE Max2(xs[1], SeqMax(Tail(xs)))
RECURSIVE SeqMin(_)
SeqMin(xs) == IF Len(xs) = 1 THEN xs[1] ELSE Min2(xs[1], SeqMin(Tail(xs)))

RECURSIVE Pow10(_)
Pow10(k) == IF k = 0 THEN 1 ELSE 10 * Pow10(k - 1)

(***************************************************************************)
(* Strings                                                                 *)
(***************************************************************************)
UpperCase == <<"A", "B", "C", "D", "E", "F", "G", "H", "I", "J", "K", "L", "M",
               "N", "O", "P", "Q", "R", "S", "T", "U", "V", "W", "X", "Y", "Z">>
LowerCase == <<"a", "b", "c", "d", "e", "f", "g", "h", "i", "j", "k", "l", "m",
               "n", "o", "p", "q", "r", "s", "t", "u", "v", "w", "x", "y", "z">>

LowerChar(c) ==
  IF \E i \in 1..Len(UpperCase) : UpperCase[i] = c
  THEN LowerCase[CHOOSE i \in 1..Len(UpperCase) : UpperCase[i] = c]
  ELSE c

\* String.prototype.toLowerCase
toLowerCase(chars) == [i \in 1..Len(chars) |-> LowerChar(chars[i])]

\* String.prototype.includes
includes(text, word) ==
  \E i \in 1..(Len(text) - Len(word) + 1) : SubSeq(text, i, i + Len(word) - 1) = word

Digits == <<"0", "1", "2", "3", "4", "5", "6", "7", "8", "9">>
IsDigit(c) == \E i \in 1..10 : Digits[i] = c
DigitValue(c) == (CHOOSE i \in 1..10 : Digits[i] = c) - 1

\* the number of digits of chars from position i on
RECURSIVE ScanDigits(_, _)
ScanDigits(chars, i) ==
  IF i <= Len(chars) /\ IsDigit(chars[i]) THEN 1 + ScanDigits(chars, i + 1) ELSE 0

\* the value of the k digits of chars from position i on
RECURSIVE DigitsValue(_, _, _)
DigitsValue(chars, i, k) ==
  IF k = 0 THEN 0
  ELSE DigitsValue(chars, i, k - 1) * 10 + DigitValue(chars[i + k - 1])

\* parseFloat of a string, to `decimals` decimals: an optional sign, digits, an
\* optional fraction; what follows the number is ignored; NaN when no digit is found.
parseFloatChars(chars, decimals) ==
  LET neg == Len(chars) > 0 /\ chars[1] = "-"
      start == IF neg THEN 2 ELSE 1
      nInt == ScanDigits(chars, start)
      dot == start + nInt
      hasDot == dot <= Len(chars) /\ chars[dot] = "."
      nFrac == IF hasDot THEN ScanDigits(chars, dot + 1) ELSE 0
      kept == Min2(nFrac, decimals)
      magnitude == DigitsValue(chars, start, nInt) * Pow10(decimals)
                   + DigitsValue(chars, dot + 1, kept) * Pow10(decimals - kept)
  IN IF nInt + nFrac = 0 THEN NaN
     ELSE Num(IF neg THEN -magnitude ELSE magnitude)

\* parseFloat(v): a number is returned as it is, a string is parsed, anything else
\* (undefined, null, a boolean) gives NaN
parseFloat(v, decimals) ==
  CASE v.t = "number" -> v
    [] v.t = "string" -> parseFloatChars(v.s, decimals)
    [] OTHER -> NaN

PriceDecimals == 5
VolumeDecimals == 2

\* ToNumber, as Math.max, Math.min, isNaN and + apply it to a price
ToNumber(v) ==
  CASE v.t = "number" -> v
    [] v.t = "boolean" -> Num(v.n * One)
    [] v.t = "null" -> Num(0)
    [] v.t = "string" -> IF v.s = <<>> THEN Num(0) ELSE parseFloatChars(v.s, PriceDecimals)
    [] OTHER -> NaN

isNaN(v) == ToNumber(v).t = "nan"

\* parseFloat(x.toFixed(4)) of a price
Round4(x) ==
  LET step == Scale \div 10000
      r == ((Abs(x) * 2 + step) \div (2 * step)) * step
  IN IF x < 0 THEN -r ELSE r

(***************************************************************************)
(* MarketAnalyzer.categorizeMarket                                         *)
(***************************************************************************)
categoryMappings ==
  << [category |-> <<"p", "o", "l", "i", "t", "i", "c", "s">>,
      keywords |-> << <<"p", "o", "l", "i", "t", "i", "c", "s">>,
                    <<"e", "l", "e", "c", "t", "i", "o", "n">>,
                    <<"g", "o", "v", "e", "r", "n", "m", "e", "n", "t">>,
                    <<"p", "o", "l", "i", "c", "y">>,
                    <<"c", "a", "n", "d", "i", "d", "a", "t", "e">> >>],
     [category |-> <<"s", "p", "o", "r", "t", "s">>,
      keywords |-> << <<"s", "p", "o", "r", "t", "s">>,
                    <<"n", "f", "l">>,
                    <<"n", "b", "a">>,
                    <<"m", "l", "b">>,
                    <<"n", "h", "l">>,
                    <<"s", "o", "c", "c", "e", "r">>,
                    <<"f", "o", "o", "t", "b", "a", "l", "l">>,
                    <<"b", "a", "s", "k", "e", "t", "b", "a", "l", "l">>,
                    <<"b", "a", "s", "e", "b", "a", "l", "l">>,
                    <<"h", "o", "c", "k", "e", "y">> >>],
     [category |-> <<"c", "r", "y", "p", "t", "o">>,
      keywords |-> << <<"c", "r", "y", "p", "t", "o">>,
                    <<"b", "i", "t", "c", "o", "i", "n">>,
                    <<"e", "t", "h", "e", "r", "e", "u", "m">>,
                    <<"b", "l", "o", "c", "k", "c", "h", "a", "i", "n">>,
                    <<"d", "e", "f", "i">>,
                    <<"n", "f", "t">> >>],
     [category |-> <<"e", "n", "t", "e", "r", "t", "a", "i", "n", "m", "e", "n", "t">>,
      keywords |-> << <<"e", "n", "t", "e", "r", "t", "a", "i", "n", "m", "e", "n", "t">>,
                    <<"m", "o", "v", "i", "e">>,
                    <<"m", "u", "s", "i", "c">>,
                    <<"c", "e", "l", "e", "b", "r", "i", "t", "y">>,
                    <<"a", "w", "a", "r", "d">>,
                    <<"t", "v">>,
                    <<"s", "t", "r", "e", "a", "m", "i", "n", "g">> >>],
     [category |-> <<"t", "e", "c", "h", "n", "o", "l", "o", "g", "y">>,
      keywords |-> << <<"t", "e", "c", "h", "n", "o", "l", "o", "g", "y">>,
                    <<"t", "e", "c", "h">>,
                    <<"a", "i">>,
                    <<"a", "r", "t", "i", "f", "i", "c", "i", "a", "l", " ", "i", "n", "t", "e", "l", "l", "i", "g", "e", "n", "c", "e">>,
                    <<"s", "o", "f", "t", "w", "a", "r", "e">>,
                    <<"s", "t", "a", "r", "t", "u", "p">> >>],
     [category |-> <<"f", "i", "n", "a", "n", "c", "e">>,
      keywords |-> << <<"f", "i", "n", "a", "n", "c", "e">>,
                    <<"s", "t", "o", "c", "k">>,
                    <<"m", "a", "r", "k", "e", "t">>,
                    <<"e", "c", "o", "n", "o", "m", "y">>,
                    <<"g", "d", "p">>,
                    <<"i", "n", "f", "l", "a", "t", "i", "o", "n">>,
                    <<"f", "e", "d", "e", "r", "a", "l", " ", "r", "e", "s", "e", "r", "v", "e">> >>],
     [category |-> <<"w", "e", "a", "t", "h", "e", "r">>,
      keywords |-> << <<"w", "e", "a", "t", "h", "e", "r">>,
                    <<"c", "l", "i", "m", "a", "t", "e">>,
                    <<"h", "u", "r", "r", "i", "c", "a", "n", "e">>,
                    <<"t", "e", "m", "p", "e", "r", "a", "t", "u", "r", "e">>,
                    <<"r", "a", "i", "n">>,
                    <<"s", "n", "o", "w">> >>],
     [category |-> <<"o", "t", "h", "e", "r">>, keywords |-> << >>] >>

\* Array.prototype.join(' ') of a tag list: a string is itself, null and undefined
\* are empty, an object is "[object Object]"
ObjectObject == <<"[", "o", "b", "j", "e", "c", "t", " ", "O", "b", "j", "e", "c", "t", "]">>

TagToString(tag) ==
  CASE tag.t = "string" -> tag.s
    [] tag.t = "object" -> ObjectObject
    [] OTHER -> <<>>

RECURSIVE join(_)
join(tags) ==
  IF tags = <<>> THEN <<>>
  ELSE IF Len(tags) = 1 THEN TagToString(tags[1])
  ELSE TagToString(tags[1]) \o <<" ">> \o join(Tail(tags))

TagItems(market) == IF market.tags.t = "array" THEN market.tags.items ELSE <<>>

RECURSIVE firstCategory(_, _)
firstCategory(text, i) ==
  IF i > Len(categoryMappings) THEN <<"o", "t", "h", "e", "r">>
  ELSE IF \E k \in 1..Len(categoryMappings[i].keywords) :
            includes(text, categoryMappings[i].keywords[k])
       THEN categoryMappings[i].category
       ELSE firstCategory(text, i + 1)

\* the text a template literal `${v}` yields; the inputs carry no number or object
\* where a template literal reads
TemplateString(v) ==
  CASE v.t = "string" -> v.s
    [] v.t = "undefined" -> <<"u", "n", "d", "e", "f", "i", "n", "e", "d">>
    [] v.t = "null" -> <<"n", "u", "l", "l">>
    [] v.t = "boolean" -> IF v.n = 1 THEN <<"t", "r", "u", "e">> ELSE <<"f", "a", "l", "s", "e">>
    [] OTHER -> <<>>

categorizeMarket(market) ==
  LET text == toLowerCase(
                TemplateString(market.question)
                \o <<" ">>
                \o (IF Truthy(market.description) THEN market.description.s ELSE <<>>)
                \o <<" ">>
                \o join(TagItems(market)))
  IN firstCategory(text, 1)

(***************************************************************************)
(* processRealMarketData, the current variant                              *)
(***************************************************************************)
\* a synthesized token priced 0
ZeroToken == [outcome |-> Str(<<"Y", "e", "s">>), price |-> Num(0), winner |-> Undefined]

DefaultToken == [outcome |-> Str(<<"Y", "e", "s">>), price |-> Num(Half), winner |-> Undefined]

TokenItems(market) == IF market.tokens.t = "array" THEN market.tokens.items ELSE <<>>

hasPrice(token) == token.price.t # "undefined" /\ token.price.t # "null"

validTokensOf(market) ==
  LET valid == SelectSeq(TokenItems(market), hasPrice)
  IN IF Len(valid) = 0 THEN <<DefaultToken>> ELSE valid

isPrimaryOutcome(chars) ==
  \/ includes(toLowerCase(chars), <<"y", "e", "s">>)
  \/ includes(toLowerCase(chars), <<"w", "i", "n">>)

\* validTokens.find(...): the index of the first token with a "yes"/"win" outcome,
\* 0 when there is none; calling toLowerCase on a truthy outcome that is no
\* string raises a TypeError
RECURSIVE findPrimary(_, _)
findPrimary(tokens, i) ==
  IF i > Len(tokens) THEN [threw |-> FALSE, index |-> 0]
  ELSE IF ~Truthy(tokens[i].outcome) THEN findPrimary(tokens, i + 1)
  ELSE IF tokens[i].outcome.t # "string" THEN [threw |-> TRUE, index |-> 0]
  ELSE IF isPrimaryOutcome(tokens[i].outcome.s) THEN [threw |-> FALSE, index |-> i]
  ELSE findPrimary(tokens, i + 1)

\* typeof price === 'string' ? parseFloat(price) || 0.5 : price
priceOf(price) ==
  IF price.t = "string" THEN OrElse(parseFloat(price, PriceDecimals), Num(Half)) ELSE price

\* the numbers of validTokens.map(priceOf).filter(p => !isNaN(p))
RECURSIVE numericPrices(_)
numericPrices(tokens) ==
  IF tokens = <<>> THEN <<>>
  ELSE LET p == priceOf(tokens[1].price)
       IN (IF isNaN(p) THEN <<>> ELSE <<ToNumber(p).n>>) \o numericPrices(Tail(tokens))

tokenSpreadOf(prices) ==
  IF Len(prices) > 1 THEN SeqMax(prices) - SeqMin(prices) ELSE One \div 10

\* Math.max(0.05, Math.min(0.20, tokenSpread * 1.5))
baseVariationOf(tokenSpread) ==
  Max2(One \div 20, Min2(One \div 5, (tokenSpread * 3) \div 2))

\* Math.abs((Math.random() - 0.5) * baseVariation)
absRandomVariation(r, baseVariation) == (Abs(r - Half) * baseVariation) \div One

highOf(currentPrice, variation) == Min2(One, currentPrice + variation)
lowOf(currentPrice, variation) == Max2(0, currentPrice - variation)

\* the name a tag entry contributes: the string itself, else its label, else its slug
tagName(tag) ==
  CASE tag.t = "string" -> Str(tag.s)
    [] tag.t = "object" /\ Truthy(tag.label) -> tag.label
    [] tag.t = "object" /\ Truthy(tag.slug) -> tag.slug
    [] OTHER -> Str(<<>>)

keepsTagName(name) == Truthy(name) /\ toLowerCase(name.s) # <<"a", "l", "l">>

\* market.tags.map(tagName).filter(t => t && t.toLowerCase() !== 'all')
tagNamesOf(market) ==
  SelectSeq([i \in 1..Len(TagItems(market)) |-> tagName(TagItems(market)[i])], keepsTagName)

\* t.toLowerCase() on a truthy name that is no string raises a TypeError
tagNamesThrow(market) ==
  \E i \in 1..Len(TagItems(market)) :
    LET name == tagName(TagItems(market)[i])
    IN Truthy(name) /\ name.t # "string"

categoryOf(market) ==
  LET tagNames == tagNamesOf(market)
      category == IF Len(tagNames) > 0 THEN toLowerCase(tagNames[1].s)
                  ELSE <<"o", "t", "h", "e", "r">>
  IN IF category = <<"o", "t", "h", "e", "r">> THEN categorizeMarket(market) ELSE category

\* market.volume24hr || market.volumeNum || (5000 + Math.random() * 50000), in cents
needsVolumeDraw(market) == ~Truthy(market.volume24hr) /\ ~Truthy(market.volumeNum)

volumeOf(market, r) ==
  IF Truthy(market.volume24hr) THEN market.volume24hr.n
  ELSE IF Truthy(market.volumeNum) THEN market.volumeNum.n
  ELSE 5000 * 100 + r * ((50000 * 100) \div One)

\* Math.floor of a volume in cents
Floor(cents) == (cents \div 100) * 100

outputToken(token) ==
  [outcome |-> OrElse(token.outcome, Str(<<"U", "n", "k", "n", "o", "w", "n">>)),
   price |-> priceOf(token.price),
   winner |-> token.winner]

primaryTokenOf(validTokens, found) ==
  IF found.index = 0 THEN validTokens[1] ELSE validTokens[found.index]

\* currentPrice, high, low and movement as returned: each rounded on its own
priceFields(currentPrice, variation) ==
  [currentPrice |-> Round4(currentPrice),
   high |-> Round4(highOf(currentPrice, variation)),
   low |-> Round4(lowOf(currentPrice, variation)),
   movement |-> Round4(highOf(currentPrice, variation) - lowOf(currentPrice, variation))]

\* the record the callback returns
processedRecord(market, category, validTokens, fields, volume24h) ==
  [id |-> OrElse(market.condition_id, market.question_id),
   question |-> market.question,
   category |-> category,
   currentPrice |-> fields.currentPrice,
   high |-> fields.high,
   low |-> fields.low,
   movement |-> fields.movement,
   volume24h |-> Floor(volume24h),
   endDate |-> market.end_date_iso,
   description |-> market.description,
   tags |-> market.tags,
   marketSlug |-> market.market_slug,
   tokens |-> [i \in 1..Len(validTokens) |-> outputToken(validTokens[i])]]

Threw(used) == [threw |-> TRUE, used |-> used, rec |-> <<>>]
Returned(used, rec) == [threw |-> FALSE, used |-> used, rec |-> rec]

drawsUsed(market) == IF needsVolumeDraw(market) THEN 2 ELSE 1

\* from currentPrice on; currentPrice.toFixed raises a TypeError unless
\* currentPrice is a number
processPriced(market, rs, validTokens, currentPrice) ==
  IF currentPrice.t # "number" THEN Threw(drawsUsed(market))
  ELSE Returned(drawsUsed(market),
         processedRecord(market, categoryOf(market), validTokens,
           priceFields(currentPrice.n,
             absRandomVariation(rs[1],
               baseVariationOf(tokenSpreadOf(numericPrices(validTokens))))),
           volumeOf(market, IF needsVolumeDraw(market) THEN rs[2] ELSE 0)))

\* from primaryToken on
processFound(market, rs, validTokens, found) ==
  IF found.threw \/ tagNamesThrow(market) THEN Threw(drawsUsed(market))
  ELSE processPriced(market, rs, validTokens,
                     priceOf(primaryTokenOf(validTokens, found).price))

processValid(market, rs, validTokens) ==
  processFound(market, rs, validTokens, findPrimary(validTokens, 1))

\* the callback of activeMarkets.map: one processed record, or a TypeError; rs are
\* the values Math.random() returns next, `used` how many of them were drawn
processOne(market, rs) == processValid(market, rs, validTokensOf(market))

\* a filter that lets closed markets through
isActiveOrClosedMarket(market) ==
  /\ Truthy(market.condition_id)
  /\ Truthy(market.question)
  /\ market.archived # True

\* the filter of the strict tier
isActiveMarket(market) ==
  /\ Truthy(market.condition_id)
  /\ Truthy(market.question)
  /\ market.closed # True
  /\ market.archived # True

\* activeMarkets.map(processOne): the records in order, or the first TypeError
prepend(one, rest) ==
  IF rest.threw THEN rest ELSE [threw |-> FALSE, recs |-> <<one.rec>> \o rest.recs]

RECURSIVE mapProcess(_, _)
mapRest(ms, rs, one) ==
  IF one.threw THEN [threw |-> TRUE, recs |-> <<>>]
  ELSE prepend(one, mapProcess(Tail(ms), SubSeq(rs, one.used + 1, Len(rs))))

mapProcess(ms, rs) ==
  IF ms = <<>> THEN [threw |-> FALSE, recs |-> <<>>]
  ELSE mapRest(ms, rs, processOne(ms[1], rs))

\* an insertion that puts a record before the records of equal movement
RECURSIVE insertBeforeEqual(_, _)
insertBeforeEqual(sorted, rec) ==
  IF sorted = <<>> THEN <<rec>>
  ELSE LET last == sorted[Len(sorted)]
       IN IF rec.movement - last.movement >= 0
          THEN insertBeforeEqual(SubSeq(sorted, 1, Len(sorted) - 1), rec) \o <<last>>
          ELSE sorted \o <<rec>>

\* Array.prototype.sort((a, b) => b.movement - a.movement): a stable sort, so the
\* record inserted later goes behind the records it does not precede
RECURSIVE insertByMovement(_, _)
insertByMovement(sorted, rec) ==
  IF sorted = <<>> THEN <<rec>>
  ELSE LET last == sorted[Len(sorted)]
       IN IF rec.movement - last.movement > 0
          THEN insertByMovement(SubSeq(sorted, 1, Len(sorted) - 1), rec) \o <<last>>
          ELSE sorted \o <<rec>>

RECURSIVE sortByMovement(_)
sortByMovement(recs) ==
  IF recs = <<>> THEN <<>>
  ELSE insertByMovement(sortByMovement(SubSeq(recs, 1, Len(recs) - 1)), recs[Len(recs)])

\* a sort that also drops the records whose movement is below one cent
sortMappedMoving(mapped) ==
  IF mapped.threw THEN [threw |-> TRUE, value |-> <<>>]
  ELSE [threw |-> FALSE,
        value |-> sortByMovement(SelectSeq(mapped.recs, LAMBDA rec : rec.movement >= 1000))]

sortMapped(mapped) ==
  IF mapped.threw THEN [threw |-> TRUE, value |-> <<>>]
  ELSE [threw |-> FALSE, value |-> sortByMovement(mapped.recs)]

\* no filter at all
everyMarketOf(ms) == ms

activeMarketsOf(ms) == SelectSeq(ms, isActiveMarket)

processRealMarketData(ms, rs) == sortMapped(mapProcess(activeMarketsOf(ms), rs))

(***************************************************************************)
(* processRealMarketData, the older variant                                *)
(***************************************************************************)
DummyToken == [outcome |-> Str(<<"Y", "e", "s">>), price |-> Str(<<"0", ".", "5">>),
               winner |-> Undefined]

validTokensOld(market) ==
  LET valid == SelectSeq(market.tokens.items, hasPrice)
  IN IF Len(valid) = 0 THEN <<DummyToken>> ELSE valid

isPrimaryOutcomeOld(chars) ==
  \/ includes(toLowerCase(chars), <<"y", "e", "s">>)
  \/ includes(toLowerCase(chars), <<"w", "i", "n">>)
  \/ toLowerCase(chars) = <<"t", "r", "u", "m", "p">>
  \/ toLowerCase(chars) = <<"b", "i", "d", "e", "n">>

RECURSIVE findPrimaryOld(_, _)
findPrimaryOld(tokens, i) ==
  IF i > Len(tokens) THEN [threw |-> FALSE, index |-> 0]
  ELSE IF ~Truthy(tokens[i].outcome) THEN findPrimaryOld(tokens, i + 1)
  ELSE IF tokens[i].outcome.t # "string" THEN [threw |-> TRUE, index |-> 0]
  ELSE IF isPrimaryOutcomeOld(tokens[i].outcome.s) THEN [threw |-> FALSE, index |-> i]
  ELSE findPrimaryOld(tokens, i + 1)

\* a string is parsed (|| 0.5), a number is kept, anything else is 0.5
priceOfOld(price) ==
  CASE price.t = "string" -> OrElse(parseFloat(price, PriceDecimals), Num(Half))
    [] price.t \in {"number", "nan"} -> price
    [] OTHER -> Num(Half)

RECURSIVE numericPricesOld(_)
numericPricesOld(tokens) ==
  IF tokens = <<>> THEN <<>>
  ELSE LET p == priceOfOld(tokens[1].price)
       IN (IF isNaN(p) THEN <<>> ELSE <<ToNumber(p).n>>) \o numericPricesOld(Tail(tokens))

\* market.tags.find(tag => tag !== 'All'): the index of the first such entry, or 0
RECURSIVE findRelevantTag(_, _)
findRelevantTag(tags, i) ==
  IF i > Len(tags) THEN 0
  ELSE IF tags[i].t = "string" /\ tags[i].s = <<"A", "l", "l">> THEN findRelevantTag(tags, i + 1)
  ELSE i

tagTruthy(tag) ==
  CASE tag.t = "string" -> tag.s # <<>>
    [] tag.t = "object" -> TRUE
    [] OTHER -> FALSE

\* relevantTag.toLowerCase() on a truthy entry that is no string raises a TypeError
relevantTagThrows(market) ==
  LET i == findRelevantTag(TagItems(market), 1)
  IN i > 0 /\ tagTruthy(TagItems(market)[i]) /\ TagItems(market)[i].t # "string"

categoryOfOld(market) ==
  LET i == findRelevantTag(TagItems(market), 1)
      category == IF i > 0 /\ tagTruthy(TagItems(market)[i])
                  THEN toLowerCase(TagItems(market)[i].s)
                  ELSE <<"o", "t", "h", "e", "r">>
  IN IF category = <<"o", "t", "h", "e", "r">> THEN categorizeMarket(market) ELSE category

outputTokenOld(token) ==
  [outcome |-> OrElse(token.outcome, Str(<<"U", "n", "k", "n", "o", "w", "n">>)),
   price |-> priceOfOld(token.price),
   winner |-> token.winner]

processedRecordOld(market, category, validTokens, fields, volume24h) ==
  [id |-> OrElse(market.condition_id, market.question_id),
   question |-> market.question,
   category |-> category,
   currentPrice |-> fields.currentPrice,
   high |-> fields.high,
   low |-> fields.low,
   movement |-> fields.movement,
   volume24h |-> Floor(volume24h),
   endDate |-> market.end_date_iso,
   description |-> market.description,
   tags |-> market.tags,
   marketSlug |-> market.market_slug,
   tokens |-> [i \in 1..Len(validTokens) |-> outputTokenOld(validTokens[i])]]

\* from primaryToken on; the volume is always the placeholder
processFoundOld(market, rs, validTokens, found) ==
  IF found.threw \/ relevantTagThrows(market) THEN Threw(2)
  ELSE Returned(2,
         processedRecordOld(market, categoryOfOld(market), validTokens,
           priceFields(priceOfOld(primaryTokenOf(validTokens, found).price).n,
             absRandomVariation(rs[1],
               baseVariationOf(tokenSpreadOf(numericPricesOld(validTokens))))),
           5000 * 100 + rs[2] * ((50000 * 100) \div One)))

processValidOld(market, rs, validTokens) ==
  processFoundOld(market, rs, validTokens, findPrimaryOld(validTokens, 1))

\* the callback of marketsToProcess.map; market.tokens.filter raises a TypeError
\* when the market has no tokens array; it always draws twice from Math.random()
processOneOld(market, rs) ==
  IF market.tokens.t # "array" THEN Threw(0)
  ELSE processValidOld(market, rs, validTokensOld(market))

RECURSIVE mapProcessOld(_, _)
mapRestOld(ms, rs, one) ==
  IF one.threw THEN [threw |-> TRUE, recs |-> <<>>]
  ELSE prepend(one, mapProcessOld(Tail(ms), SubSeq(rs, one.used + 1, Len(rs))))

mapProcessOld(ms, rs) ==
  IF ms = <<>> THEN [threw |-> FALSE, recs |-> <<>>]
  ELSE mapRestOld(ms, rs, processOneOld(ms[1], rs))

\* first pass: strict filters
isStrict(market) ==
  /\ market.closed # True
  /\ market.archived # True
  /\ Truthy(market.condition_id)
  /\ Truthy(market.question)

\* second pass: relaxed filters
isRelaxed(market) ==
  /\ market.archived # True
  /\ Truthy(market.condition_id)
  /\ Truthy(market.question)

MinStrict == 5

strictFilteredOf(ms) == SelectSeq(ms, isStrict)
relaxedFilteredOf(ms) == SelectSeq(ms, isRelaxed)

\* the relaxed filters whatever the strict ones select
alwaysRelaxedOf(ms) == relaxedFilteredOf(ms)

marketsToProcessOld(ms) ==
  IF Len(strictFilteredOf(ms)) < MinStrict THEN relaxedFilteredOf(ms) ELSE strictFilteredOf(ms)

processRealMarketDataOld(ms, rs) == sortMapped(mapProcessOld(marketsToProcessOld(ms), rs))

(***************************************************************************)
(* JSON.parse, on the texts the Gamma API serialises outcomes and          *)
(* outcomePrices as: a scalar (string, number, null) or an array of        *)
(* scalars; anything else is a SyntaxError                                 *)
(***************************************************************************)
RECURSIVE jsonSkip(_, _)
jsonSkip(chars, i) ==
  IF i <= Len(chars) /\ chars[i] = " " THEN jsonSkip(chars, i + 1) ELSE i

\* the position of the first quote at or after i, 0 when there is none
RECURSIVE closingQuote(_, _)
closingQuote(chars, i) ==
  IF i > Len(chars) THEN 0
  ELSE IF chars[i] = "\"" THEN i
  ELSE closingQuote(chars, i + 1)

ScalarFail == [ok |-> FALSE, val |-> Undefined, next |-> 0]

jsonString(chars, i, close) ==
  IF close = 0 THEN ScalarFail
  ELSE [ok |-> TRUE, val |-> Str(SubSeq(chars, i + 1, close - 1)), next |-> close + 1]

\* the length of the digits and fraction at position start, 0 when it is no number
fractionLength(chars, start, nInt) ==
  IF nInt = 0 THEN 0
  ELSE IF start + nInt <= Len(chars) /\ chars[start + nInt] = "."
  THEN (IF ScanDigits(chars, start + nInt + 1) = 0 THEN 0
        ELSE nInt + 1 + ScanDigits(chars, start + nInt + 1))
  ELSE nInt

numberLength(chars, i) ==
  IF chars[i] = "-"
  THEN (IF fractionLength(chars, i + 1, ScanDigits(chars, i + 1)) = 0 THEN 0
        ELSE 1 + fractionLength(chars, i + 1, ScanDigits(chars, i + 1)))
  ELSE fractionLength(chars, i, ScanDigits(chars, i))

jsonNumber(chars, i, length) ==
  IF length = 0 THEN ScalarFail
  ELSE [ok |-> TRUE,
        val |-> parseFloatChars(SubSeq(chars, i, i + length - 1), PriceDecimals),
        next |-> i + length]

jsonScalar(chars, i) ==
  IF i > Len(chars) THEN ScalarFail
  ELSE IF chars[i] = "\"" THEN jsonString(chars, i, closingQuote(chars, i + 1))
  ELSE IF IsDigit(chars[i]) \/ chars[i] = "-" THEN jsonNumber(chars, i, numberLength(chars, i))
  ELSE IF i + 3 <= Len(chars) /\ SubSeq(chars, i, i + 3) = <<"n", "u", "l", "l">>
  THEN [ok |-> TRUE, val |-> Null, next |-> i + 4]
  ELSE ScalarFail

ListFail == [ok |-> FALSE, items |-> <<>>, next |-> 0]

consItems(v, rest) ==
  IF rest.ok THEN [ok |-> TRUE, items |-> <<v.val>> \o rest.items, next |-> rest.next]
  ELSE rest

\* the elements of an array from position i on, to the closing bracket
RECURSIVE jsonElements(_, _)
jsonSeparator(chars, v, j) ==
  IF j > Len(chars) THEN ListFail
  ELSE IF chars[j] = "]" THEN [ok |-> TRUE, items |-> <<v.val>>, next |-> j + 1]
  ELSE IF chars[j] = "," THEN consItems(v, jsonElements(chars, jsonSkip(chars, j + 1)))
  ELSE ListFail

jsonAfterValue(chars, v) ==
  IF v.ok THEN jsonSeparator(chars, v, jsonSkip(chars, v.next)) ELSE ListFail

jsonElements(chars, i) == jsonAfterValue(chars, jsonScalar(chars, i))

jsonArray(chars, i) ==
  IF i <= Len(chars) /\ chars[i] = "]" THEN [ok |-> TRUE, items |-> <<>>, next |-> i + 1]
  ELSE jsonElements(chars, i)

ParseThrew == [threw |-> TRUE, t |-> "undefined", items |-> <<>>, val |-> Undefined]

finishArray(chars, list) ==
  IF list.ok /\ jsonSkip(chars, list.next) = Len(chars) + 1
  THEN [threw |-> FALSE, t |-> "array", items |-> list.items, val |-> Undefined]
  ELSE ParseThrew

finishScalar(chars, v) ==
  IF v.ok /\ jsonSkip(chars, v.next) = Len(chars) + 1
  THEN [threw |-> FALSE, t |-> v.val.t, items |-> <<>>, val |-> v.val]
  ELSE ParseThrew

jsonTop(chars, i) ==
  IF i > Len(chars) THEN ParseThrew
  ELSE IF chars[i] = "[" THEN finishArray(chars, jsonArray(chars, jsonSkip(chars, i + 1)))
  ELSE finishScalar(chars, jsonScalar(chars, i))

JSONparse(chars) == jsonTop(chars, jsonSkip(chars, 1))

(***************************************************************************)
(* PolymarketAPI.normalizeMarket (Gamma)                                   *)
(***************************************************************************)
DefaultOutcomes ==
  [threw |-> FALSE, t |-> "array", val |-> Undefined,
   items |-> <<Str(<<"Y", "e", "s">>), Str(<<"N", "o">>)>>]
DefaultPrices ==
  [threw |-> FALSE, t |-> "array", val |-> Undefined, items |-> <<Num(Half), Num(Half)>>]

\* market.outcomes ? JSON.parse(market.outcomes) : ['Yes', 'No']
parsedOutcomes(market) ==
  IF Truthy(market.outcomes) THEN JSONparse(market.outcomes.s) ELSE DefaultOutcomes

\* market.outcomePrices ? JSON.parse(market.outcomePrices) : [0.5, 0.5]
parsedPrices(market) ==
  IF Truthy(market.outcomePrices) THEN JSONparse(market.outcomePrices.s) ELSE DefaultPrices

\* prices[index]: an element of an array, a character of a string, else undefined
elementAt(prices, index) ==
  CASE prices.t = "array" /\ index <= Len(prices.items) -> prices.items[index]
    [] prices.t = "string" /\ index <= Len(prices.val.s) -> Str(<<prices.val.s[index]>>)
    [] OTHER -> Undefined

\* prices[index] || 0.5
priceAt(prices, index) == OrElse(elementAt(prices, index), Num(Half))

normalizedTokens(outcomes, prices) ==
  [index \in 1..Len(outcomes.items) |->
     [outcome |-> outcomes.items[index], price |-> priceAt(prices, index), winner |-> False]]

\* parseFloat(v) || 0 of a volume
volumeNumber(v) == OrElse(parseFloat(v, VolumeDecimals), Num(0))

normalizedRecord(market, tokens) ==
  [condition_id |-> OrElse(market.conditionId, market.id),
   question_id |-> market.questionId,
   question |-> market.question,
   description |-> market.description,
   end_date_iso |-> market.endDate,
   market_slug |-> market.slug,
   closed |-> OrElse(market.closed, False),
   archived |-> OrElse(market.archived, False),
   active |-> Bool(market.active # False),
   tokens |-> [t |-> "array", items |-> tokens],
   tags |-> IF market.tags.t = "array" THEN market.tags ELSE [t |-> "array", items |-> <<>>],
   volume24hr |-> volumeNumber(market.volume24hr),
   volumeNum |-> volumeNumber(market.volumeNum),
   liquidity |-> volumeNumber(market.liquidity)]

\* JSON.parse raises a SyntaxError; outcomes.map on a value that is no array and
\* prices[index] on null raise a TypeError
normalizeParsed(market, outcomes, prices) ==
  IF outcomes.threw \/ prices.threw THEN [thrown |-> "SyntaxError", value |-> <<>>]
  ELSE IF outcomes.t # "array" THEN [thrown |-> "TypeError", value |-> <<>>]
  ELSE IF prices.t = "null" /\ Len(outcomes.items) > 0
  THEN [thrown |-> "TypeError", value |-> <<>>]
  ELSE [thrown |-> "none", value |-> <<normalizedRecord(market, normalizedTokens(outcomes, prices))>>]

\* the normalized market as a one-element sequence, or the exception raised
normalizeMarket(market) == normalizeParsed(market, parsedOutcomes(market), parsedPrices(market))


(***************************************************************************)
(* MarketAnalyzer.processMarket and what it calls                          *)
(*                                                                         *)
(* Instants are whole seconds since 1970-01-01T00:00:00Z.                   *)
(***************************************************************************)
\* market[name]: undefined when the record has no such property
Field(market, name) == IF name \in DOMAIN market THEN market[name] ELSE Undefined

isLeapYear(y) == (y % 4 = 0 /\ y % 100 # 0) \/ y % 400 = 0

daysInMonth(y, m) ==
  CASE m = 2 -> IF isLeapYear(y) THEN 29 ELSE 28
    [] m \in {4, 6, 9, 11} -> 30
    [] OTHER -> 31

\* the days from 1970-01-01 to the day y-m-d of the Gregorian calendar
daysFromCivil(y, m, d) ==
  LET yy == IF m <= 2 THEN y - 1 ELSE y
      era == yy \div 400
      yoe == yy - era * 400
      doy == (153 * (IF m > 2 THEN m - 3 ELSE m + 9) + 2) \div 5 + d - 1
      doe == yoe * 365 + yoe \div 4 - yoe \div 100 + doy
  IN era * 146097 + doe - 719468

instantOf(y, m, d, h, mi, sec) ==
  daysFromCivil(y, m, d) * 86400 + h * 3600 + mi * 60 + sec

\* the texts YYYY-MM-DDTHH:MM:SSZ
isIsoShape(chars) ==
  /\ Len(chars) = 20
  /\ \A i \in {1, 2, 3, 4, 6, 7, 9, 10, 12, 13, 15, 16, 18, 19} : IsDigit(chars[i])
  /\ chars[5] = "-" /\ chars[8] = "-" /\ chars[11] = "T"
  /\ chars[14] = ":" /\ chars[17] = ":" /\ chars[20] = "Z"

isIsoInstant(y, m, d, h, mi, sec) ==
  /\ m \in 1..12 /\ d \in 1..daysInMonth(y, m)
  /\ h \in 0..23 /\ mi \in 0..59 /\ sec \in 0..59

\* parseISO of date-fns on a text YYYY-MM-DDTHH:MM:SSZ or on a text that is no
\* date at all: the instant, or NaN for an Invalid Date
parseISOChars(chars) ==
  IF ~isIsoShape(chars) THEN NaN
  ELSE IF ~isIsoInstant(DigitsValue(chars, 1, 4), DigitsValue(chars, 6, 2),
                        DigitsValue(chars, 9, 2), DigitsValue(chars, 12, 2),
                        DigitsValue(chars, 15, 2), DigitsValue(chars, 18, 2))
  THEN NaN
  ELSE Num(instantOf(DigitsValue(chars, 1, 4), DigitsValue(chars, 6, 2),
                     DigitsValue(chars, 9, 2), DigitsValue(chars, 12, 2),
                     DigitsValue(chars, 15, 2), DigitsValue(chars, 18, 2)))

parseISO(v) == IF v.t = "string" THEN parseISOChars(v.s) ELSE NaN

\* differenceInHours of date-fns: the whole hours from `clock` to `date`,
\* rounded toward zero; NaN for an Invalid Date
differenceInHours(date, clock) ==
  IF date.t = "nan" THEN NaN
  ELSE IF date.n >= clock THEN Num((date.n - clock) \div 3600)
  ELSE Num(-((clock - date.n) \div 3600))

hoursThreshold == 24

\* isResolvingSoon(market) at the instant `clock`
isResolvingSoon(market, clock) ==
  IF ~Truthy(Field(market, "endDateIso")) THEN False
  ELSE IF differenceInHours(parseISO(Field(market, "endDateIso")), clock).t = "nan" THEN False
  ELSE Bool(/\ differenceInHours(parseISO(Field(market, "endDateIso")), clock).n <= hoursThreshold
            /\ differenceInHours(parseISO(Field(market, "endDateIso")), clock).n >= 0)

\* [...priceHistory].sort((a, b) => new Date(a.timestamp) - new Date(b.timestamp)),
\* the timestamps being numbers; Array.prototype.sort is stable
RECURSIVE insertByTimestamp(_, _)
insertByTimestamp(sorted, entry) ==
  IF sorted = <<>> THEN <<entry>>
  ELSE IF sorted[Len(sorted)].timestamp.n - entry.timestamp.n > 0
  THEN insertByTimestamp(SubSeq(sorted, 1, Len(sorted) - 1), entry) \o <<sorted[Len(sorted)]>>
  ELSE sorted \o <<entry>>

RECURSIVE sortedHistoryOf(_)
sortedHistoryOf(history) ==
  IF history = <<>> THEN <<>>
  ELSE insertByTimestamp(sortedHistoryOf(SubSeq(history, 1, Len(history) - 1)),
                         history[Len(history)])

\* sortedHistory.map(p => parseFloat(p.price))
pricesOf(sortedHistory) ==
  [i \in 1..Len(sortedHistory) |-> parseFloat(sortedHistory[i].price, PriceDecimals)]

\* parseFloat(x.toFixed(4)) of a number or of NaN
toFixed4(v) == IF v.t = "number" THEN Num(Round4(v.n)) ELSE NaN

\* high, low, movement and the clamped current price of numeric prices
movementOfNumbers(numbers, currentPrice) ==
  [high |-> toFixed4(Num(SeqMax(numbers))),
   low |-> toFixed4(Num(SeqMin(numbers))),
   movement |-> toFixed4(Num(SeqMax(numbers) - SeqMin(numbers))),
   currentPrice |-> toFixed4(Num(Max2(SeqMin(numbers), Min2(SeqMax(numbers), currentPrice.n))))]

\* Math.max and Math.min return NaN as soon as one price is NaN
movementOfPrices(prices) ==
  IF \E i \in 1..Len(prices) : prices[i].t = "nan"
  THEN [high |-> NaN, low |-> NaN, movement |-> NaN, currentPrice |-> NaN]
  ELSE movementOfNumbers([i \in 1..Len(prices) |-> prices[i].n],
                         OrElse(prices[Len(prices)], Num(0)))

\* !priceHistory || priceHistory.length === 0; an absent history is undefined or null
calculatePriceMovement(history) ==
  IF history = Undefined \/ history = Null \/ Len(history) = 0
  THEN [high |-> Num(0), low |-> Num(0), movement |-> Num(0), currentPrice |-> Num(0)]
  ELSE movementOfPrices(pricesOf(sortedHistoryOf(history)))

\* market.tokens.find(token => token.outcome.toLowerCase().includes('yes')): the
\* index of the first such token, 0 when there is none; toLowerCase on an
\* outcome that is no string raises a TypeError
RECURSIVE findYes(_, _)
findYes(tokens, i) ==
  IF i > Len(tokens) THEN [threw |-> FALSE, index |-> 0]
  ELSE IF tokens[i].outcome.t # "string" THEN [threw |-> TRUE, index |-> 0]
  ELSE IF includes(toLowerCase(tokens[i].outcome.s), <<"y", "e", "s">>)
  THEN [threw |-> FALSE, index |-> i]
  ELSE findYes(tokens, i + 1)

\* getCurrentPrice(market): the price as a number, or the TypeError raised; the
\* records carry outcomePrices and tokens as arrays or not at all
getCurrentPrice(market) ==
  IF Field(market, "outcomePrices").t = "array" /\ Len(Field(market, "outcomePrices").items) > 0
  THEN [threw |-> FALSE,
        value |-> OrElse(parseFloat(Field(market, "outcomePrices").items[1], PriceDecimals), Num(0))]
  ELSE IF Field(market, "tokens").t = "array" /\ Len(Field(market, "tokens").items) > 0
  THEN IF findYes(market.tokens.items, 1).threw THEN [threw |-> TRUE, value |-> Num(0)]
       ELSE [threw |-> FALSE,
             value |-> OrElse(parseFloat(primaryTokenOf(market.tokens.items,
                                           findYes(market.tokens.items, 1)).price,
                                         PriceDecimals),
                              Num(0))]
  ELSE [threw |-> FALSE, value |-> Num(0)]

\* a number as the records of filterAndSortMarkets hold it; NaN stays NaN
numberOf(v) == IF v.t = "number" THEN v.n ELSE v

\* the record processMarket returns: the market's own properties, the computed
\* ones replacing those of the same name
analyzedRecord(market, category, resolvingSoon, priceMovement, currentPrice) ==
  [category |-> category,
   isResolvingSoon |-> resolvingSoon,
   currentPrice |-> numberOf(currentPrice),
   high |-> numberOf(priceMovement.high),
   low |-> numberOf(priceMovement.low),
   movement |-> numberOf(priceMovement.movement),
   volume24hr |-> numberOf(parseFloat(OrElse(Field(market, "volume24hr"), Num(0)), VolumeDecimals)),
   liquidityUSD |-> numberOf(parseFloat(OrElse(Field(market, "liquidityUSD"), Num(0)),
                                        VolumeDecimals))]
  @@ market

\* priceMovement.currentPrice || this.getCurrentPrice(market)
processMoved(market, clock, priceMovement) ==
  IF Truthy(priceMovement.currentPrice)
  THEN [thrown |-> "none",
        value |-> <<analyzedRecord(market, categorizeMarket(market),
                                   isResolvingSoon(market, clock), priceMovement,
                                   priceMovement.currentPrice)>>]
  ELSE IF getCurrentPrice(market).threw THEN [thrown |-> "TypeError", value |-> <<>>]
  ELSE [thrown |-> "none",
        value |-> <<analyzedRecord(market, categorizeMarket(market),
                                   isResolvingSoon(market, clock), priceMovement,
                                   getCurrentPrice(market).value)>>]

\* processMarket(market, priceHistory) at the instant `clock`: the analyzed
\* market as a one-element sequence, or the exception raised
processMarket(market, history, clock) ==
  processMoved(market, clock, calculatePriceMovement(history))

(***************************************************************************)
(* MarketAnalyzer.filterAndSortMarkets                                     *)
(***************************************************************************)
DefaultMinimumMovement == 1000
DefaultMinimumVolume == 10000
DefaultLimit == 50

DefaultOptions ==
  [excludeResolvingSoon |-> TRUE, minimumMovement |-> DefaultMinimumMovement,
   minimumVolume |-> DefaultMinimumVolume, limit |-> DefaultLimit]

\* the callback of markets.filter
passesFilters(market, opts) ==
  /\ ~(opts.excludeResolvingSoon /\ Truthy(market.isResolvingSoon))
  /\ ~(Truthy(market.closed) \/ Truthy(market.archived) \/ ~Truthy(market.active))
  /\ ~(market.movement < opts.minimumMovement)
  /\ ~(market.volume24hr < opts.minimumVolume)

filteredOf(ms, opts) == SelectSeq(ms, LAMBDA market : passesFilters(market, opts))

\* Array.prototype.slice(0, limit)
slice(recs, limit) == SubSeq(recs, 1, Min2(limit, Len(recs)))

\* the limit applied before the sort
sliceAndSortMarkets(ms, opts) == sortByMovement(slice(filteredOf(ms, opts), opts.limit))

filterAndSortMarkets(ms, opts) == slice(sortByMovement(filteredOf(ms, opts)), opts.limit)

(***************************************************************************)
(* PolymarketAPI.fetchMarkets and sortMarkets (Gamma API)                  *)
(***************************************************************************)
\* 'Unable to connect to Polymarket API. Please check your internet connection.'
ConnectMessage ==
  <<"U", "n", "a", "b", "l", "e", " ", "t", "o", " ", "c", "o", "n", "n", "e", "c", "t", " ",
    "t", "o", " ", "P", "o", "l", "y", "m", "a", "r", "k", "e", "t", " ", "A", "P", "I", ".",
    " ", "P", "l", "e", "a", "s", "e", " ", "c", "h", "e", "c", "k", " ", "y", "o", "u", "r",
    " ", "i", "n", "t", "e", "r", "n", "e", "t", " ", "c", "o", "n", "n", "e", "c", "t", "i",
    "o", "n", ".">>

\* 'API rate limit exceeded. Please try again in a few minutes.'
RateLimitMessage ==
  <<"A", "P", "I", " ", "r", "a", "t", "e", " ", "l", "i", "m", "i", "t", " ", "e", "x", "c",
    "e", "e", "d", "e", "d", ".", " ", "P", "l", "e", "a", "s", "e", " ", "t", "r", "y", " ",
    "a", "g", "a", "i", "n", " ", "i", "n", " ", "a", " ", "f", "e", "w", " ", "m", "i", "n",
    "u", "t", "e", "s", ".">>

\* 'Polymarket API is experiencing issues. Please try again later.'
ServerMessage ==
  <<"P", "o", "l", "y", "m", "a", "r", "k", "e", "t", " ", "A", "P", "I", " ", "i", "s", " ",
    "e", "x", "p", "e", "r", "i", "e", "n", "c", "i", "n", "g", " ", "i", "s", "s", "u", "e",
    "s", ".", " ", "P", "l", "e", "a", "s", "e", " ", "t", "r", "y", " ", "a", "g", "a", "i",
    "n", " ", "l", "a", "t", "e", "r", ".">>

\* 'Failed to fetch markets: '
FailedPrefix ==
  <<"F", "a", "i", "l", "e", "d", " ", "t", "o", " ", "f", "e", "t", "c", "h", " ", "m", "a",
    "r", "k", "e", "t", "s", ":", " ">>

\* 'No markets available from Polymarket Gamma API'
NoMarketsMessage ==
  <<"N", "o", " ", "m", "a", "r", "k", "e", "t", "s", " ", "a", "v", "a", "i", "l", "a", "b",
    "l", "e", " ", "f", "r", "o", "m", " ", "P", "o", "l", "y", "m", "a", "r", "k", "e", "t",
    " ", "G", "a", "m", "m", "a", " ", "A", "P", "I">>

\* the message of the TypeError of `for (const event of events)` on an object
NotIterableMessage ==
  <<"e", "v", "e", "n", "t", "s", " ", "i", "s", " ", "n", "o", "t", " ", "i", "t", "e", "r",
    "a", "b", "l", "e">>

\* the message of the SyntaxError of JSON.parse
SyntaxErrorMessage ==
  <<"U", "n", "e", "x", "p", "e", "c", "t", "e", "d", " ", "t", "o", "k", "e", "n", " ", "i",
    "n", " ", "J", "S", "O", "N">>

\* the message of a TypeError of a call on a value that has no such method
TypeErrorMessage ==
  <<"t", "o", "L", "o", "w", "e", "r", "C", "a", "s", "e", " ", "i", "s", " ", "n", "o", "t",
    " ", "a", " ", "f", "u", "n", "c", "t", "i", "o", "n">>

messageOfThrown(kind) ==
  IF kind = "SyntaxError" THEN SyntaxErrorMessage ELSE TypeErrorMessage

\* an Error raised inside the try block: it has no code and no response
plainError(message) == [code |-> "none", status |-> 0, message |-> message]

\* the catch block with the status tested before the code
friendlyErrorStatusFirst(error) ==
  IF error.status = 429 THEN RateLimitMessage
  ELSE IF error.status >= 500 THEN ServerMessage
  ELSE IF error.code = "ENOTFOUND" \/ error.code = "ECONNREFUSED" THEN ConnectMessage
  ELSE FailedPrefix \o error.message

\* the catch block: the message of the Error thrown for a caught error; status 0
\* stands for an error without response
friendlyError(error) ==
  IF error.code = "ENOTFOUND" \/ error.code = "ECONNREFUSED" THEN ConnectMessage
  ELSE IF error.status = 429 THEN RateLimitMessage
  ELSE IF error.status >= 500 THEN ServerMessage
  ELSE FailedPrefix \o error.message

\* a.endDate || a.end_date_iso
endDateOf(market) == OrElse(Field(market, "endDate"), Field(market, "end_date_iso"))

\* new Date(text) for the texts parseISO is modelled for: the instant, or NaN
newDate(v) == parseISO(v)

isAfter(date, clock) == date.t = "number" /\ date.n > clock
isNotAfter(date, clock) == date.t = "number" /\ date.n <= clock

\* aDate - bDate: NaN, which sort takes for 0, when a date is invalid
dateDifference(aDate, bDate) ==
  IF aDate.t = "number" /\ bDate.t = "number" THEN aDate.n - bDate.n ELSE 0

compareDates(aDate, bDate, clock) ==
  IF isAfter(aDate, clock) /\ isNotAfter(bDate, clock) THEN -1
  ELSE IF isNotAfter(aDate, clock) /\ isAfter(bDate, clock) THEN 1
  ELSE IF isAfter(aDate, clock) /\ isAfter(bDate, clock) THEN dateDifference(aDate, bDate)
  ELSE dateDifference(bDate, aDate)

\* the comparator of sortMarkets at the instant `clock`
compareMarkets(a, b, clock) ==
  IF Truthy(endDateOf(a)) /\ Truthy(endDateOf(b))
  THEN compareDates(newDate(endDateOf(a)), newDate(endDateOf(b)), clock)
  ELSE IF a.closed # b.closed THEN (IF Truthy(a.closed) THEN 1 ELSE -1)
  ELSE 0

RECURSIVE insertByEndDate(_, _, _)
insertByEndDate(sorted, market, clock) ==
  IF sorted = <<>> THEN <<market>>
  ELSE IF compareMarkets(sorted[Len(sorted)], market, clock) > 0
  THEN insertByEndDate(SubSeq(sorted, 1, Len(sorted) - 1), market, clock)
       \o <<sorted[Len(sorted)]>>
  ELSE sorted \o <<market>>

\* markets.sort(comparator): a stable sort
RECURSIVE sortMarkets(_, _)
sortMarkets(ms, clock) ==
  IF ms = <<>> THEN <<>>
  ELSE insertByEndDate(sortMarkets(SubSeq(ms, 1, Len(ms) - 1), clock), ms[Len(ms)], clock)

\* {...market, tags: event.tags || market.tags || []}; normalizeMarket reads
\* neither eventTitle nor eventSlug
enrichedMarket(market, event) ==
  [market EXCEPT
     !.tags = OrElse(OrElse(event.tags, market.tags), [t |-> "array", items |-> <<>>])]

\* the enriched markets of one event
marketsOfEvent(event) ==
  IF event.markets.t = "array"
  THEN [i \in 1..Len(event.markets.items) |-> enrichedMarket(event.markets.items[i], event)]
  ELSE <<>>

RECURSIVE marketsOfEvents(_)
marketsOfEvents(events) ==
  IF events = <<>> THEN <<>>
  ELSE marketsOfEvent(events[1]) \o marketsOfEvents(Tail(events))

consNormalized(head, rest) ==
  IF head.thrown # "none" THEN [thrown |-> head.thrown, value |-> <<>>]
  ELSE IF rest.thrown # "none" THEN rest
  ELSE [thrown |-> "none", value |-> head.value \o rest.value]

\* allMarkets after the loops, or the first exception of normalizeMarket
RECURSIVE normalizeAll(_)
normalizeAll(raws) ==
  IF raws = <<>> THEN [thrown |-> "none", value |-> <<>>]
  ELSE IF normalizeMarket(raws[1]).thrown # "none"
  THEN [thrown |-> normalizeMarket(raws[1]).thrown, value |-> <<>>]
  ELSE consNormalized(normalizeMarket(raws[1]), normalizeAll(Tail(raws)))

Rejected(message) == [threw |-> TRUE, message |-> message, value |-> <<>>]
Resolved(value) == [threw |-> FALSE, message |-> <<>>, value |-> value]

\* from allMarkets on
fetchExtracted(allMarkets, clock) ==
  IF allMarkets.thrown # "none"
  THEN Rejected(friendlyError(plainError(messageOfThrown(allMarkets.thrown))))
  ELSE IF Len(allMarkets.value) = 0
  THEN Rejected(friendlyError(plainError(NoMarketsMessage)))
  ELSE Resolved(sortMarkets(allMarkets.value, clock))

\* fetchMarkets once the request has settled with `resp`, at the instant `clock`:
\* the array returned or the message of the Error thrown
fetchMarkets(resp, clock) ==
  IF ~resp.ok THEN Rejected(friendlyError(resp))
  ELSE IF resp.data.t = "object" THEN Rejected(friendlyError(plainError(NotIterableMessage)))
  ELSE IF resp.data.t # "array" THEN fetchExtracted(normalizeAll(<<>>), clock)
  ELSE fetchExtracted(normalizeAll(marketsOfEvents(resp.data.items)), clock)

(***************************************************************************)
(* Dashboard: the component's state                                        *)
(***************************************************************************)
\* the useState initial values
InitialDashboard ==
  [markets |-> <<>>, loading |-> TRUE, error |-> Null, isUsingRealData |-> FALSE,
   lastUpdated |-> Null]

NoResponse ==
  [ok |-> FALSE, code |-> "none", status |-> 0, message |-> <<>>,
   data |-> [t |-> "undefined", items |-> <<>>]]
NotFetched == [threw |-> FALSE, message |-> <<>>, value |-> <<>>]

\* no run of fetchMarketData has started
DashboardAtRest ==
  /\ dashboard = InitialDashboard
  /\ response = NoResponse
  /\ fetched = NotFetched
  /\ inFlight = 0

\* the fallback list of the catch block, built at the instant `clock`; endDate
\* stands for the ISO text of the instant a year later
sampleData(clock) ==
  <<[id |-> Str(<<"s", "a", "m", "p", "l", "e", "-", "1">>),
     question |-> Str(
       <<"W", "i", "l", "l", " ", "B", "i", "t", "c", "o", "i", "n", " ", "r", "e", "a", "c",
         "h", " ", "$", "2", "0", "0", ",", "0", "0", "0", " ", "b", "y", " ", "e", "n", "d",
         " ", "o", "f", " ", "2", "0", "2", "6", "?">>),
     category |-> <<"c", "r", "y", "p", "t", "o">>,
     currentPrice |-> 45000, high |-> 52000, low |-> 38000, movement |-> 52000 - 38000,
     volume24h |-> 25000 * 100,
     endDate |-> Num(clock + 365 * 24 * 60 * 60),
     resolved |-> False]>>

\* the messages for which the catch block shows no market at all
showsNoMarkets(message) ==
  \/ includes(message, <<"i", "n", "t", "e", "r", "n", "e", "t", " ", "c", "o", "n", "n", "e", "c", "t", "i", "o", "n">>)
  \/ includes(message, <<"r", "a", "t", "e", " ", "l", "i", "m", "i", "t">>)
  \/ includes(message, <<"e", "x", "p", "e", "r", "i", "e", "n", "c", "i", "n", "g", " ", "i", "s", "s", "u", "e", "s">>)

\* the start without setLoading(true)
afterStartStillIdle(state) == [state EXCEPT !.error = Null]

\* setLoading(true); setError(null)
afterStart(state) == [state EXCEPT !.loading = TRUE, !.error = Null]

\* the new markets appended to the list on screen
afterSuccessMerging(state, processedMarkets, clock) ==
  [state EXCEPT !.isUsingRealData = TRUE, !.markets = state.markets \o processedMarkets,
                !.lastUpdated = Num(clock), !.loading = FALSE]

\* the try block run to its end, then finally
afterSuccess(state, processedMarkets, clock) ==
  [state EXCEPT !.isUsingRealData = TRUE, !.markets = processedMarkets,
                !.lastUpdated = Num(clock), !.loading = FALSE]

\* the catch block without setIsUsingRealData(false)
afterCatchStillReal(state, message, clock) ==
  [state EXCEPT !.error = Str(message),
                !.markets = IF showsNoMarkets(message) THEN <<>> ELSE sampleData(clock),
                !.loading = FALSE]

\* the catch block, then finally
afterCatch(state, message, clock) ==
  [state EXCEPT !.error = Str(message), !.isUsingRealData = FALSE,
                !.markets = IF showsNoMarkets(message) THEN <<>> ELSE sampleData(clock),
                !.loading = FALSE]

\* fetchMarketData from the value or the Error of fetchMarkets on; fetchMarkets
\* returns an array whenever it returns
afterFetch(state, result, rs, clock) ==
  IF result.threw THEN afterCatch(state, result.message, clock)
  ELSE IF processRealMarketData(result.value, rs).threw
  THEN afterCatch(state, TypeErrorMessage, clock)
  ELSE afterSuccess(state, processRealMarketData(result.value, rs).value, clock)

(***************************************************************************)
(* The calls                                                               *)
(***************************************************************************)
\* the Dashboard's call processRealMarketData(marketsArray), current variant
ProcessRealMarketData ==
  /\ pc = "ready"
  /\ processed' = processRealMarketData(markets, random).value
  /\ thrown' = IF processRealMarketData(markets, random).threw THEN "TypeError" ELSE "none"
  /\ pc' = "done"
  /\ ran' = "processRealMarketData"
  /\ UNCHANGED <<gamma, markets, random, options,
               previous, now, priceHistory, response, fetched, dashboard, inFlight>>

\* the same call on the older variant of the module
ProcessRealMarketDataOld ==
  /\ pc = "ready"
  /\ processed' = processRealMarketDataOld(markets, random).value
  /\ thrown' = IF processRealMarketDataOld(markets, random).threw THEN "TypeError" ELSE "none"
  /\ pc' = "done"
  /\ ran' = "processRealMarketDataOld"
  /\ UNCHANGED <<gamma, markets, random, options,
               previous, now, priceHistory, response, fetched, dashboard, inFlight>>

\* PolymarketAPI.fetchMarkets (Gamma) hands each raw market to normalizeMarket
NormalizeMarket ==
  /\ pc = "fetched"
  /\ thrown' = normalizeMarket(gamma).thrown
  /\ markets' = normalizeMarket(gamma).value
  /\ pc' = IF normalizeMarket(gamma).thrown = "none" THEN "ready" ELSE "done"
  /\ ran' = "normalizeMarket"
  /\ UNCHANGED <<gamma, random, processed, options,
               previous, now, priceHistory, response, fetched, dashboard, inFlight>>

\* a call of MarketAnalyzer.processMarket(market, priceHistory) on the one market
\* at hand; new Date() is the instant `now`
ProcessMarket ==
  /\ pc = "ready"
  /\ Len(markets) = 1
  /\ thrown' = processMarket(markets[1], priceHistory, now).thrown
  /\ markets' = processMarket(markets[1], priceHistory, now).value
  /\ pc' = IF processMarket(markets[1], priceHistory, now).thrown = "none"
           THEN "analyzed" ELSE "done"
  /\ ran' = "processMarket"
  /\ UNCHANGED <<gamma, random, processed, options, previous, now, priceHistory,
                 response, fetched, dashboard, inFlight>>

\* a call of MarketAnalyzer.calculatePriceMovement(priceHistory)
CalculatePriceMovement ==
  /\ pc = "sampled"
  /\ processed' = <<calculatePriceMovement(priceHistory)>>
  /\ thrown' = "none"
  /\ pc' = "done"
  /\ ran' = "calculatePriceMovement"
  /\ UNCHANGED <<gamma, markets, random, options, previous, now, priceHistory,
                 response, fetched, dashboard, inFlight>>

\* all orders of the entries of a sequence
permutationsOf(entries) ==
  {[i \in 1..Len(entries) |-> entries[order[i]]] :
     order \in {f \in [1..Len(entries) -> 1..Len(entries)] :
                  \A i, j \in 1..Len(entries) : i # j => f[i] # f[j]}}

\* a second call of calculatePriceMovement, on the same samples in some order
CalculatePriceMovementAgain ==
  /\ pc = "done"
  /\ ran = "calculatePriceMovement"
  /\ priceHistory # Undefined
  /\ \E history \in permutationsOf(priceHistory) : priceHistory' = history
  /\ previous' = processed
  /\ processed' = <<calculatePriceMovement(priceHistory')>>
  /\ thrown' = "none"
  /\ pc' = "again"
  /\ UNCHANGED <<gamma, markets, random, ran, options, now, response, fetched, dashboard, inFlight>>

\* a call of MarketAnalyzer.filterAndSortMarkets(markets, options)
FilterAndSortMarkets ==
  /\ pc = "analyzed"
  /\ processed' = filterAndSortMarkets(markets, options)
  /\ thrown' = "none"
  /\ pc' = "done"
  /\ ran' = "filterAndSortMarkets"
  /\ UNCHANGED <<gamma, markets, random, options,
               previous, now, priceHistory, response, fetched, dashboard, inFlight>>

(***************************************************************************)
(* Inputs                                                                  *)
(***************************************************************************)
NoArray == [t |-> "undefined", items |-> <<>>]
Array(items) == [t |-> "array", items |-> items]

\* all sequences over S of length at most n
SeqsUpTo(S, n) == UNION {[1..k -> S] : k \in 0..n}

BaseMarket ==
  [condition_id |-> Str(<<"m", "1">>), question_id |-> Undefined,
   question |-> Str(<<"X">>), description |-> Undefined,
   end_date_iso |-> Undefined, market_slug |-> Undefined,
   closed |-> False, archived |-> False, active |-> True,
   tokens |-> NoArray, tags |-> NoArray,
   volume24hr |-> Num(120000), volumeNum |-> Num(0), liquidity |-> Num(0)]

BaseGamma ==
  [conditionId |-> Str(<<"m", "1">>), id |-> Undefined, questionId |-> Undefined,
   question |-> Str(<<"X">>), description |-> Undefined, endDate |-> Undefined,
   slug |-> Undefined, closed |-> False, archived |-> False, active |-> True,
   outcomes |-> Undefined, outcomePrices |-> Undefined, tags |-> NoArray,
   volume24hr |-> Num(120000), volumeNum |-> Undefined, liquidity |-> Undefined]

\* the draws of Math.random() the specifications choose from: the ends of [0, 1),
\* the middle (no variation) and a draw just off the middle
Draws == {0, Half - 27, Half, One - 1}

MaxTokens == 2

PriceOutcomes == {Undefined, Str(<<"Y", "e", "s">>), Str(<<"N", "o">>)}

\* absent, zero, inside [0, 1], outside [0, 1], as numbers and as strings, and a
\* price of another type
PriceValues ==
  {Undefined, Num(0), Num(60000), Num(150000), Num(-20000),
   Str(<<"0", ".", "6">>), Str(<<"0">>), Str(<<"a", "b", "c">>), True}

PriceTokens == [outcome : PriceOutcomes, price : PriceValues, winner : {Undefined}]

PriceTokenLists == {NoArray} \cup {Array(items) : items \in SeqsUpTo(PriceTokens, MaxTokens)}

\* one market with every shape of token list, one draw for the variation
InitPrice ==
  /\ pc = "ready"
  /\ gamma = BaseGamma
  /\ \E tokens \in PriceTokenLists : markets = <<[BaseMarket EXCEPT !.tokens = tokens]>>
  /\ \E r \in Draws : random = <<r, 0>>
  /\ processed = <<>>
  /\ thrown = "none"
  /\ ran = "none"
  /\ options = DefaultOptions
  /\ previous = <<>>
  /\ now = 0
  /\ priceHistory = <<>>
  /\ DashboardAtRest

NextPrice == ProcessRealMarketData \/ ProcessRealMarketDataOld

SpecPrice == InitPrice /\ [][NextPrice]_vars

(***************************************************************************)
(* Batches for the filter tiers                                            *)
(***************************************************************************)
YesToken(price) == [outcome |-> Str(<<"Y", "e", "s">>), price |-> price, winner |-> Undefined]

\* the market at position i of a batch; its id names the position
MarketId(i) == Str(<<"m", Digits[i + 1]>>)

Kinds == {"open", "closed", "archived", "noQuestion", "noId", "inactive"}

MarketOfKind(kind, i) ==
  [BaseMarket EXCEPT
     !.condition_id = IF kind = "noId" THEN Undefined ELSE MarketId(i),
     !.question = IF kind = "noQuestion" THEN Str(<<>>) ELSE Str(<<"X">>),
     !.closed = IF kind = "closed" THEN True ELSE False,
     !.archived = IF kind = "archived" THEN True ELSE False,
     !.active = IF kind = "inactive" THEN False ELSE True,
     !.tokens = Array(<<YesToken(Num(60000))>>)]

BatchOfKinds(kinds) == [i \in 1..Len(kinds) |-> MarketOfKind(kinds[i], i)]

MaxBatch == 3
MaxOpen == 6

\* n open markets with one market of another kind at position at
OpenWithOne(n, kind, at) ==
  [i \in 1..(n + 1) |-> MarketOfKind(IF i = at THEN kind ELSE "open", i)]

TierBatches ==
  {BatchOfKinds(kinds) : kinds \in SeqsUpTo(Kinds, MaxBatch)}
  \cup {OpenWithOne(n, kind, at) : n \in 0..MaxOpen, kind \in Kinds, at \in 1..(MaxOpen + 1)}

\* every batch, a fixed draw for every call of Math.random()
InitTier ==
  /\ pc = "ready"
  /\ gamma = BaseGamma
  /\ \E batch \in TierBatches :
       /\ markets = batch
       /\ random = [i \in 1..(2 * Len(batch)) |-> 0]
  /\ processed = <<>>
  /\ thrown = "none"
  /\ ran = "none"
  /\ options = DefaultOptions
  /\ previous = <<>>
  /\ now = 0
  /\ priceHistory = <<>>
  /\ DashboardAtRest

NextTier == ProcessRealMarketData \/ ProcessRealMarketDataOld

SpecTier == InitTier /\ [][NextTier]_vars

(***************************************************************************)
(* Batches for the final sort                                              *)
(***************************************************************************)
MaxSort == 3

SortPrices == {Num(60000), Num(98000)}

SortBatches ==
  UNION {[1..k -> SortPrices] : k \in 0..MaxSort}

\* the records processMarket hands to filterAndSortMarkets
AnalyzedMarket(i, movement, closed) ==
  [id |-> MarketId(i), closed |-> closed, archived |-> False, active |-> True,
   isResolvingSoon |-> False, movement |-> movement, volume24hr |-> 120000]

Movements == {0, 1000, 10000}

AnalyzedBatches ==
  {[i \in 1..Len(ms) |-> AnalyzedMarket(i, ms[i][1], ms[i][2])] :
     ms \in SeqsUpTo(Movements \X {False, True}, MaxSort)}

Limits == {1, 2, DefaultLimit}

InitSort ==
  /\ gamma = BaseGamma
  /\ previous = <<>>
  /\ now = 0
  /\ priceHistory = <<>>
  /\ DashboardAtRest
  /\ processed = <<>>
  /\ thrown = "none"
  /\ ran = "none"
  /\ \/ /\ pc = "ready"
        /\ \E prices \in SortBatches :
             markets = [i \in 1..Len(prices) |->
                          [MarketOfKind("open", i) EXCEPT !.tokens = Array(<<YesToken(prices[i])>>)]]
        /\ \E rs \in [1..Len(markets) -> Draws] : random = rs
        /\ options = DefaultOptions
     \/ /\ pc = "analyzed"
        /\ \E batch \in AnalyzedBatches : markets = batch
        /\ random = <<>>
        /\ \E limit \in Limits : options = [DefaultOptions EXCEPT !.limit = limit]

NextSort == ProcessRealMarketData \/ FilterAndSortMarkets

SpecSort == InitSort /\ [][NextSort]_vars

(***************************************************************************)
(* Markets for the categorizer                                             *)
(***************************************************************************)
StringTag(chars) == [t |-> "string", s |-> chars, label |-> Undefined, slug |-> Undefined]
LabelTag(label) == [t |-> "object", s |-> <<>>, label |-> label, slug |-> Undefined]
SlugTag(slug) == [t |-> "object", s |-> <<>>, label |-> Undefined, slug |-> slug]
NullTag == [t |-> "null", s |-> <<>>, label |-> Undefined, slug |-> Undefined]

MaxTags == 2

TagEntries ==
  {StringTag(<<"A", "l", "l">>),
   StringTag(<<"O", "t", "h", "e", "r">>),
   StringTag(<<"B", "u", "s", "i", "n", "e", "s", "s">>),
   StringTag(<<"P", "o", "l", "i", "t", "i", "c", "s">>),
   LabelTag(Str(<<"C", "r", "y", "p", "t", "o">>)),
   SlugTag(Str(<<"s", "p", "o", "r", "t", "s">>)),
   NullTag,
   LabelTag(Num(7))}

TagLists == {NoArray} \cup {Array(items) : items \in SeqsUpTo(TagEntries, MaxTags)}

Questions ==
  {Str(<<"X">>),
   Str(<<"B", "i", "t", "c", "o", "i", "n", " ", "u", "p">>),
   Str(<<"R", "a", "i", "n">>)}

InitCategory ==
  /\ pc = "ready"
  /\ gamma = BaseGamma
  /\ \E tags \in TagLists, question \in Questions :
       markets = <<[MarketOfKind("open", 1) EXCEPT !.tags = tags, !.question = question]>>
  /\ random = <<0, 0>>
  /\ processed = <<>>
  /\ thrown = "none"
  /\ ran = "none"
  /\ options = DefaultOptions
  /\ previous = <<>>
  /\ now = 0
  /\ priceHistory = <<>>
  /\ DashboardAtRest

NextCategory == ProcessRealMarketData \/ ProcessRealMarketDataOld

SpecCategory == InitCategory /\ [][NextCategory]_vars

(***************************************************************************)
(* Raw Gamma markets for normalizeMarket                                   *)
(***************************************************************************)
GammaOutcomes ==
  {Undefined,
   Str(<<"[", "\"", "Y", "e", "s", "\"", ",", "\"", "N", "o", "\"", "]">>),
   Str(<<"[", "\"", "Y", "e", "s", "\"", "]">>),
   Str(<<"Y", "e", "s", ",", "N", "o">>),
   Str(<<"n", "u", "l", "l">>)}

GammaPrices ==
  {Undefined,
   Str(<<"[", "0", ".", "6", ",", "0", ".", "4", "]">>),
   Str(<<"[", "\"", "0", ".", "6", "\"", ",", "\"", "0", ".", "4", "\"", "]">>),
   Str(<<"[", "0", ",", "1", "]">>),
   Str(<<"[", "\"", "0", "\"", ",", "\"", "1", "\"", "]">>),
   Str(<<"[", "0", ".", "6", "]">>),
   Str(<<"0", ".", "6", ",", "0", ".", "4">>),
   Str(<<"n", "u", "l", "l">>),
   Str(<<"[", "\"", "a", "b", "c", "\"", ",", "\"", "0", ".", "4", "\"", "]">>),
   Str(<<"[", "1", ".", "5", ",", "-", "0", ".", "5", "]">>)}

GammaVolumes == {Undefined, Num(0), Num(120000), Str(<<"1", "2", "0", "0", ".", "5">>)}

InitGamma ==
  /\ pc = "fetched"
  /\ \E outcomes \in GammaOutcomes, prices \in GammaPrices, volume \in GammaVolumes :
       gamma = [BaseGamma EXCEPT !.outcomes = outcomes, !.outcomePrices = prices,
                                 !.volume24hr = volume]
  /\ markets = <<>>
  /\ \E r \in Draws : random = <<r, 0>>
  /\ processed = <<>>
  /\ thrown = "none"
  /\ ran = "none"
  /\ options = DefaultOptions
  /\ previous = <<>>
  /\ now = 0
  /\ priceHistory = <<>>
  /\ DashboardAtRest

NextGamma == NormalizeMarket \/ ProcessRealMarketData

SpecGamma == InitGamma /\ [][NextGamma]_vars

(***************************************************************************)
(* Batches processed twice                                                 *)
(***************************************************************************)
MaxAgain == 2

AgainKinds == {"open", "closed"}
AgainPrices == {Num(60000), Num(98000)}
AgainTags == {NoArray, Array(<<StringTag(<<"B", "u", "s", "i", "n", "e", "s", "s">>)>>)}
AgainVolumes == {Num(0), Num(120000)}

AgainMarket(i, choice) ==
  [MarketOfKind(choice[1], i) EXCEPT
     !.tokens = Array(<<YesToken(choice[2])>>),
     !.tags = choice[3],
     !.volume24hr = choice[4],
     !.question = Str(<<"B", "i", "t", "c", "o", "i", "n", " ", "u", "p">>)]

AgainBatches ==
  {[i \in 1..Len(choices) |-> AgainMarket(i, choices[i])] :
     choices \in SeqsUpTo(AgainKinds \X AgainPrices \X AgainTags \X AgainVolumes, MaxAgain)}

\* every draw of a run is the same value; the two runs may differ in it
InitAgain ==
  /\ pc = "ready"
  /\ gamma = BaseGamma
  /\ \E batch \in AgainBatches :
       /\ markets = batch
       /\ \E r \in Draws : random = [i \in 1..(2 * Len(batch)) |-> r]
  /\ processed = <<>>
  /\ thrown = "none"
  /\ ran = "none"
  /\ options = DefaultOptions
  /\ previous = <<>>
  /\ now = 0
  /\ priceHistory = <<>>
  /\ DashboardAtRest

\* a second call of processRealMarketData with the same markets, after the first
\* has returned; Math.random() goes on to other values
ProcessRealMarketDataAgain ==
  /\ pc = "done"
  /\ ran = "processRealMarketData"
  /\ thrown = "none"
  /\ \E r \in Draws : random' = [i \in 1..Len(random) |-> r]
  /\ previous' = processed
  /\ processed' = processRealMarketData(markets, random').value
  /\ thrown' = IF processRealMarketData(markets, random').threw THEN "TypeError" ELSE "none"
  /\ pc' = "again"
  /\ UNCHANGED <<gamma, markets, ran, options, now, priceHistory, response, fetched, dashboard, inFlight>>

NextAgain == ProcessRealMarketData \/ ProcessRealMarketDataAgain

SpecAgain == InitAgain /\ [][NextAgain]_vars

(***************************************************************************)
(* Analyzed markets around the thresholds of filterAndSortMarkets          *)
(***************************************************************************)
MaxFilter == 1

\* README, Filtering Logic: 0.5 cents of movement, $50 of daily volume (in cents)
ReadmeMinimumMovement == 500
ReadmeMinimumVolume == 5000

FilterMovements == {0, 400, ReadmeMinimumMovement, 999, DefaultMinimumMovement}
FilterVolumes == {4900, ReadmeMinimumVolume, 9999, DefaultMinimumVolume}

FilterMarket(i, choice) ==
  [AnalyzedMarket(i, choice[1], choice[3]) EXCEPT
     !.volume24hr = choice[2], !.active = choice[4], !.isResolvingSoon = choice[5]]

FilterBatches ==
  {[i \in 1..Len(choices) |-> FilterMarket(i, choices[i])] :
     choices \in SeqsUpTo(FilterMovements \X FilterVolumes \X {False, True}
                            \X {True, False} \X {False, True}, MaxFilter)}

InitFilter ==
  /\ pc = "analyzed"
  /\ gamma = BaseGamma
  /\ \E batch \in FilterBatches : markets = batch
  /\ random = <<>>
  /\ processed = <<>>
  /\ thrown = "none"
  /\ ran = "none"
  /\ options = DefaultOptions
  /\ previous = <<>>
  /\ now = 0
  /\ priceHistory = <<>>
  /\ DashboardAtRest

NextFilter == FilterAndSortMarkets

SpecFilter == InitFilter /\ [][NextFilter]_vars

(***************************************************************************)
(* One market from the Gamma API to the filter                             *)
(***************************************************************************)
MaxHistory == 2

\* 2026-11-05T10:00:00Z
Clock == instantOf(2026, 11, 5, 10, 0, 0)

Clocks == {Clock, Clock + 1800}

\* end dates from two hours before Clock to a day after the 24 hours, a text
\* that is no date, the empty text and no end date
EndDates ==
  {Undefined, Str(<<>>), Str(<<"s", "o", "o", "n">>),
   Str(<<"2", "0", "2", "6", "-", "1", "1", "-", "0", "5", "T", "0", "8", ":", "0", "0", ":", "0", "0", "Z">>),
   Str(<<"2", "0", "2", "6", "-", "1", "1", "-", "0", "5", "T", "2", "2", ":", "0", "0", ":", "0", "0", "Z">>),
   Str(<<"2", "0", "2", "6", "-", "1", "1", "-", "0", "6", "T", "1", "0", ":", "0", "0", ":", "0", "0", "Z">>),
   Str(<<"2", "0", "2", "6", "-", "1", "1", "-", "0", "6", "T", "1", "0", ":", "4", "5", ":", "0", "0", "Z">>),
   Str(<<"2", "0", "2", "6", "-", "1", "1", "-", "0", "7", "T", "1", "0", ":", "0", "0", ":", "0", "0", "Z">>)}

HistoryPrices == {Str(<<"0", ".", "4", "0">>), Str(<<"0", ".", "5", "5">>), Num(70000), Num(0)}

HistoryEntries == {[timestamp |-> Num(t), price |-> p] : t \in {1, 2}, p \in HistoryPrices}

AnalyzeVolumes == {Num(120000), Num(5000)}

\* a market as a caller of processMarket may hold it: the end date under endDateIso
DirectMarket(endDate, volume) ==
  [endDateIso |-> endDate, condition_id |-> Str(<<"m", "1">>), question |-> Str(<<"X">>),
   description |-> Undefined, closed |-> False, archived |-> False, active |-> True,
   tokens |-> Array(<<YesToken(Num(60000))>>), tags |-> NoArray, volume24hr |-> volume]

InitAnalyze ==
  /\ \E endDate \in EndDates, volume \in AnalyzeVolumes :
       \/ /\ pc = "fetched"
          /\ gamma = [BaseGamma EXCEPT !.endDate = endDate, !.volume24hr = volume]
          /\ markets = <<>>
       \/ /\ pc = "ready"
          /\ gamma = BaseGamma
          /\ markets = <<DirectMarket(endDate, volume)>>
  /\ \E history \in SeqsUpTo(HistoryEntries, MaxHistory) : priceHistory = history
  /\ \E clock \in Clocks : now = clock
  /\ random = <<>>
  /\ processed = <<>>
  /\ thrown = "none"
  /\ ran = "none"
  /\ options = DefaultOptions
  /\ previous = <<>>
  /\ DashboardAtRest

NextAnalyze == NormalizeMarket \/ ProcessMarket \/ FilterAndSortMarkets

SpecAnalyze == InitAnalyze /\ [][NextAnalyze]_vars

(***************************************************************************)
(* The Dashboard: mount, the request, the rest of fetchMarketData, Refresh *)
(***************************************************************************)
MaxEvents == 1

Codes == {"none", "ENOTFOUND", "ECONNREFUSED", "ECONNABORTED"}

\* 0: the error carries no response
Statuses == {0, 404, 429, 500, 503}

RawMessages ==
  {<<"N", "e", "t", "w", "o", "r", "k", " ", "E", "r", "r", "o", "r">>,
   <<"R", "e", "q", "u", "e", "s", "t", " ", "f", "a", "i", "l", "e", "d">>}

FailedResponses ==
  {[ok |-> FALSE, code |-> code, status |-> status, message |-> message,
    data |-> [t |-> "undefined", items |-> <<>>]] :
     code \in Codes, status \in Statuses, message \in RawMessages}

EventKinds == {"noMarkets", "empty", "one", "two", "closed", "badJson", "oddOutcome"}

\* the market in slot j of event e
EventMarket(e, j) == [BaseGamma EXCEPT !.conditionId = MarketId(2 * (e - 1) + j)]

LaterEnd ==
  Str(<<"2", "0", "2", "6", "-", "1", "1", "-", "0", "7", "T", "1", "0", ":", "0", "0", ":", "0", "0", "Z">>)
SoonerEnd ==
  Str(<<"2", "0", "2", "6", "-", "1", "1", "-", "0", "6", "T", "1", "0", ":", "4", "5", ":", "0", "0", "Z">>)
PastEnd ==
  Str(<<"2", "0", "2", "6", "-", "1", "1", "-", "0", "5", "T", "0", "8", ":", "0", "0", ":", "0", "0", "Z">>)

EventMarkets(e, kind) ==
  CASE kind = "noMarkets" -> Undefined
    [] kind = "empty" -> Array(<<>>)
    [] kind = "one" -> Array(<<[EventMarket(e, 1) EXCEPT !.endDate = LaterEnd]>>)
    [] kind = "two" ->
         Array(<<[EventMarket(e, 1) EXCEPT !.endDate = LaterEnd],
                 [EventMarket(e, 2) EXCEPT !.endDate = SoonerEnd, !.volume24hr = Num(0)]>>)
    [] kind = "closed" ->
         Array(<<[EventMarket(e, 1) EXCEPT !.endDate = PastEnd, !.closed = True]>>)
    [] kind = "badJson" ->
         Array(<<[EventMarket(e, 1) EXCEPT !.outcomes = Str(<<"Y", "e", "s", ",", "N", "o">>)]>>)
    [] kind = "oddOutcome" ->
         Array(<<[EventMarket(e, 1) EXCEPT !.outcomes = Str(<<"[", "1", "]">>)]>>)

EventOf(e, kind) ==
  [markets |-> EventMarkets(e, kind),
   tags |-> IF kind = "one" THEN Array(<<StringTag(<<"B", "u", "s", "i", "n", "e", "s", "s">>)>>)
            ELSE Undefined]

OkResponse(data) ==
  [ok |-> TRUE, code |-> "none", status |-> 200, message |-> <<>>, data |-> data]

OkResponses ==
  {OkResponse([t |-> "undefined", items |-> <<>>]), OkResponse([t |-> "object", items |-> <<>>])}
  \cup {OkResponse([t |-> "array", items |-> [e \in 1..Len(kinds) |-> EventOf(e, kinds[e])]]) :
          kinds \in SeqsUpTo(EventKinds, MaxEvents)}

\* one market listed under two events
SharedResponses ==
  {OkResponse([t |-> "array", items |-> <<EventOf(1, "one"), EventOf(1, kind)>>]) :
     kind \in {"one", "two"}}

Responses == FailedResponses \cup OkResponses \cup SharedResponses

\* fetchMarketData up to the request of fetchMarkets
startFetchMarketData ==
  /\ dashboard' = afterStart(dashboard)
  /\ response' = NoResponse
  /\ fetched' = NotFetched
  /\ previous' = dashboard.markets
  /\ inFlight' = inFlight + 1
  /\ pc' = "requesting"
  /\ UNCHANGED <<gamma, markets, random, processed, thrown, ran, options, now, priceHistory>>

\* useEffect(() => { fetchMarketData(); }, []) after the first render
Mount ==
  /\ pc = "mounted"
  /\ startFetchMarketData

\* a click on Refresh: while loading is true the component renders the spinner
\* alone, and the button is disabled
Refresh ==
  /\ ~dashboard.loading
  /\ startFetchMarketData

\* the request settles and fetchMarkets runs to its return or its throw
FetchMarkets ==
  /\ pc = "requesting"
  /\ \E resp \in Responses :
       /\ response' = resp
       /\ fetched' = fetchMarkets(resp, now)
  /\ pc' = "settled"
  /\ ran' = "fetchMarkets"
  /\ UNCHANGED <<gamma, markets, random, processed, thrown, options, previous, now,
                 priceHistory, dashboard, inFlight>>

\* fetchMarketData resumes after the await and runs to the end of finally
FetchMarketData ==
  /\ pc = "settled"
  /\ \E r \in Draws : random' = [i \in 1..(2 * Len(fetched.value)) |-> r]
  /\ dashboard' = afterFetch(dashboard, fetched, random', now)
  /\ pc' = "idle"
  /\ ran' = "fetchMarketData"
  /\ inFlight' = inFlight - 1
  /\ UNCHANGED <<gamma, markets, processed, thrown, options, previous, now, priceHistory,
                 response, fetched>>

InitDashboard ==
  /\ pc = "mounted"
  /\ gamma = BaseGamma
  /\ markets = <<>>
  /\ random = <<>>
  /\ processed = <<>>
  /\ thrown = "none"
  /\ ran = "none"
  /\ options = DefaultOptions
  /\ previous = <<>>
  /\ now = Clock
  /\ priceHistory = <<>>
  /\ DashboardAtRest

NextDashboard == Mount \/ FetchMarkets \/ FetchMarketData \/ Refresh

SpecDashboard == InitDashboard /\ [][NextDashboard]_vars

\* the step of FetchMarketData as the position of the run shows it
resumesAfterAwait == pc = "settled" /\ pc' = "idle"

\* the request settles, by its answer or by the client's timeout of 15 seconds, and
\* the event loop then runs what waits on it: the rest of fetchMarketData, which
\* has no loop and no further await
SpecDashboardLive ==
  SpecDashboard /\ WF_vars(FetchMarkets) /\ WF_pc(resumesAfterAwait)

(***************************************************************************)
(* Price histories given to calculatePriceMovement                         *)
(***************************************************************************)
\* prices with four and with five decimals, as numbers and as text
SamplePrices == {Num(55556), Num(11114), Str(<<"0", ".", "4", "0">>), Num(0)}

Samples == {[timestamp |-> Num(t), price |-> p] : t \in {1, 2}, p \in SamplePrices}

InitHistory ==
  /\ pc = "sampled"
  /\ gamma = BaseGamma
  /\ markets = <<>>
  /\ \E history \in SeqsUpTo(Samples, MaxHistory) \cup {Undefined} : priceHistory = history
  /\ random = <<>>
  /\ processed = <<>>
  /\ thrown = "none"
  /\ ran = "none"
  /\ options = DefaultOptions
  /\ previous = <<>>
  /\ now = 0
  /\ DashboardAtRest

NextHistory == CalculatePriceMovement \/ CalculatePriceMovementAgain

SpecHistory == InitHistory /\ [][NextHistory]_vars

(***************************************************************************)
(* PolymarketAPI.filterRecentMarkets and sortAndReturnMarkets (CLOB API)   *)
(***************************************************************************)
\* ['2025', '2026', 'google', 'chatgpt', 'ai', 'trump', 'bitcoin', 'election']
currentKeywords ==
  <<<<"2", "0", "2", "5">>, <<"2", "0", "2", "6">>, <<"g", "o", "o", "g", "l", "e">>,
    <<"c", "h", "a", "t", "g", "p", "t">>, <<"a", "i">>, <<"t", "r", "u", "m", "p">>,
    <<"b", "i", "t", "c", "o", "i", "n">>, <<"e", "l", "e", "c", "t", "i", "o", "n">>>>

\* ['2025', '2026', 'ai', 'trump', 'bitcoin', 'election'], of the sort of the
\* unresolved markets
unresolvedKeywords ==
  <<<<"2", "0", "2", "5">>, <<"2", "0", "2", "6">>, <<"a", "i">>,
    <<"t", "r", "u", "m", "p">>, <<"b", "i", "t", "c", "o", "i", "n">>,
    <<"e", "l", "e", "c", "t", "i", "o", "n">>>>

\* keywords.reduce((score, keyword) => score + (q.includes(keyword) ? 1 : 0), 0)
\* on the lower-cased question
scoreOf(market, keywords) ==
  LET q == toLowerCase(market.question.s)
  IN Cardinality({k \in 1..Len(keywords) : includes(q, keywords[k])})

\* the comparator of sortAndReturnMarkets at the instant `clock`
compareTopical(a, b, clock) ==
  LET aScore == scoreOf(a, currentKeywords)
      bScore == scoreOf(b, currentKeywords)
  IN
  IF aScore # bScore THEN bScore - aScore
  ELSE IF Truthy(a.end_date_iso) /\ Truthy(b.end_date_iso)
  THEN compareDates(newDate(a.end_date_iso), newDate(b.end_date_iso), clock)
  ELSE IF a.closed # b.closed THEN (IF Truthy(a.closed) THEN 1 ELSE -1)
  ELSE 0

\* order[i][j] is what a comparator returns for entries i and j of an array of n:
\* the comparator is consistent when each entry equals itself, equality is
\* symmetric and transitive, and less-than and greater-than are transitive
isConsistent(order, n) ==
  \A i, j, k \in 1..n :
    /\ order[i][i] = 0
    /\ order[i][j] = 0 => order[j][i] = 0
    /\ (order[i][j] = 0 /\ order[j][k] = 0) => order[i][k] = 0
    /\ (order[i][j] < 0 /\ order[j][k] < 0) => order[i][k] < 0
    /\ (order[i][j] > 0 /\ order[j][k] > 0) => order[i][k] > 0

\* the entries i..n of the function f as a tuple
RECURSIVE asTuple(_, _, _)
asTuple(f, i, n) == IF i > n THEN <<>> ELSE <<f[i]>> \o asTuple(f, i + 1, n)

topicalOrder(ms, clock) ==
  asTuple([i \in 1..Len(ms) |->
             asTuple([j \in 1..Len(ms) |-> compareTopical(ms[i], ms[j], clock)], 1, Len(ms))],
          1, Len(ms))

RECURSIVE insertTopical(_, _, _)
insertTopical(sorted, market, clock) ==
  IF sorted = <<>> THEN <<market>>
  ELSE IF compareTopical(sorted[Len(sorted)], market, clock) > 0
  THEN insertTopical(SubSeq(sorted, 1, Len(sorted) - 1), market, clock)
       \o <<sorted[Len(sorted)]>>
  ELSE sorted \o <<market>>

RECURSIVE sortTopical(_, _)
sortTopical(ms, clock) ==
  IF ms = <<>> THEN <<>>
  ELSE insertTopical(sortTopical(SubSeq(ms, 1, Len(ms) - 1), clock), ms[Len(ms)], clock)

\* the arrays sortAndReturnMarkets can return for markets whose questions are
\* strings: markets.sort(comparator) is the stable sort when the comparator is
\* consistent on them, and an order the implementation chooses when it is not
sortAndReturnMarkets(ms, clock) ==
  IF isConsistent(topicalOrder(ms, clock), Len(ms)) THEN {sortTopical(ms, clock)}
  ELSE permutationsOf(ms)

\* aQ.includes('google') && aQ.includes('chatgpt')
isGoogleVsChatGPT(market) ==
  LET q == toLowerCase(market.question.s)
  IN includes(q, <<"g", "o", "o", "g", "l", "e">>) /\ includes(q, <<"c", "h", "a", "t", "g", "p", "t">>)

\* the comparator of the sort of the unresolved markets
comparePriority(a, b) ==
  IF isGoogleVsChatGPT(a) THEN -1
  ELSE IF isGoogleVsChatGPT(b) THEN 1
  ELSE scoreOf(b, unresolvedKeywords) - scoreOf(a, unresolvedKeywords)

priorityOrder(ms) ==
  asTuple([i \in 1..Len(ms) |->
             asTuple([j \in 1..Len(ms) |-> comparePriority(ms[i], ms[j])], 1, Len(ms))],
          1, Len(ms))

RECURSIVE insertPriority(_, _)
insertPriority(sorted, market) ==
  IF sorted = <<>> THEN <<market>>
  ELSE IF comparePriority(sorted[Len(sorted)], market) > 0
  THEN insertPriority(SubSeq(sorted, 1, Len(sorted) - 1), market) \o <<sorted[Len(sorted)]>>
  ELSE sorted \o <<market>>

RECURSIVE sortPriority(_)
sortPriority(ms) ==
  IF ms = <<>> THEN <<>>
  ELSE insertPriority(sortPriority(SubSeq(ms, 1, Len(ms) - 1)), ms[Len(ms)])

\* the arrays unresolvedMarkets.sort(comparator) can leave
prioritized(ms) ==
  IF isConsistent(priorityOrder(ms), Len(ms)) THEN {sortPriority(ms)}
  ELSE permutationsOf(ms)

\* !(!market.question || !market.condition_id || market.archived)
hasBasicData(market) ==
  Truthy(market.question) /\ Truthy(market.condition_id) /\ ~Truthy(market.archived)

\* 30 * 24 * 60 * 60 * 1000 milliseconds, in seconds
oneMonth == 30 * 24 * 60 * 60

\* the filter of both dated tiers: an end date after `limit`, or no end date and
\* not closed
endsAfter(market, limit) ==
  /\ hasBasicData(market)
  /\ IF ~Truthy(market.end_date_iso) THEN ~Truthy(market.closed)
     ELSE isAfter(newDate(market.end_date_iso), limit)

marketsWithTimeLeft(allMarkets, clock) ==
  SelectSeq(allMarkets, LAMBDA market : endsAfter(market, clock + oneMonth))

anyFutureMarkets(allMarkets, clock) ==
  SelectSeq(allMarkets, LAMBDA market : endsAfter(market, clock))

unresolvedMarkets(allMarkets) ==
  SelectSeq(allMarkets,
            LAMBDA market : /\ ~Truthy(market.closed)
                            /\ ~Truthy(market.archived)
                            /\ Truthy(market.question)
                            /\ Truthy(market.condition_id))

interestingMarkets(allMarkets) ==
  SelectSeq(allMarkets,
            LAMBDA market : /\ hasBasicData(market)
                            /\ scoreOf(market, currentKeywords) > 0)

FutureCap == 30
InterestingCap == 15

\* the arrays filterRecentMarkets can return for allMarkets at the instant `clock`
filterRecentMarkets(allMarkets, clock) ==
  IF marketsWithTimeLeft(allMarkets, clock) # <<>>
  THEN sortAndReturnMarkets(marketsWithTimeLeft(allMarkets, clock), clock)
  ELSE IF anyFutureMarkets(allMarkets, clock) # <<>>
  THEN sortAndReturnMarkets(slice(anyFutureMarkets(allMarkets, clock), FutureCap), clock)
  ELSE IF unresolvedMarkets(allMarkets) # <<>>
  THEN UNION {sortAndReturnMarkets(ms, clock) : ms \in prioritized(unresolvedMarkets(allMarkets))}
  ELSE sortAndReturnMarkets(slice(interestingMarkets(allMarkets), InterestingCap), clock)

(***************************************************************************)
(* SpecClob: filterRecentMarkets and sortAndReturnMarkets on CLOB batches   *)
(***************************************************************************)
MaxClob == 3

\* more markets than a capped tier keeps
MaxOverCap == 1

ClobId(i) == Str(<<"c", Digits[(i \div 10) + 1], Digits[(i % 10) + 1]>>)

Snow == Str(<<"S", "n", "o", "w">>)
Trump == Str(<<"T", "r", "u", "m", "p">>)
Trump2026 == Str(<<"T", "r", "u", "m", "p", " ", "2", "0", "2", "6">>)

FarEnd ==
  Str(<<"2", "0", "2", "7", "-", "0", "1", "-", "0", "1", "T", "0", "0", ":", "0", "0", ":", "0", "0", "Z">>)

ClobEnds == {Undefined, FarEnd, LaterEnd, PastEnd}

ClobMarket(question, end, closed, archived) ==
  [BaseMarket EXCEPT !.question = question, !.end_date_iso = end, !.closed = closed,
                     !.archived = archived]

ClobMarkets ==
  {ClobMarket(question, end, closed, False) :
     question \in {Snow, Trump}, end \in ClobEnds, closed \in {True, False}}
  \cup {ClobMarket(Undefined, Undefined, False, False), ClobMarket(Trump, FarEnd, False, True)}

\* the batch with the position of each market as its condition_id
numbered(ms) == [i \in 1..Len(ms) |-> [ms[i] EXCEPT !.condition_id = ClobId(i)]]

repeated(market, n) == [i \in 1..n |-> market]

\* batches of more candidates than a cap: equal markets of a lower keyword score,
\* then markets of the same tier
overCap(filler, cap, last) ==
  {repeated(filler, cap - 1) \o tail :
     tail \in UNION {[1..k -> {filler, last}] : k \in 1..(1 + MaxOverCap)}}

ClobBatches ==
  {numbered(ms) :
     ms \in SeqsUpTo(ClobMarkets, MaxClob)
            \cup overCap(ClobMarket(Snow, LaterEnd, False, False), FutureCap,
                         ClobMarket(Trump2026, SoonerEnd, False, False))
            \cup overCap(ClobMarket(Trump, PastEnd, True, False), InterestingCap,
                         ClobMarket(Trump2026, PastEnd, True, False))}

\* filterRecentMarkets(allMarkets)
FilterRecentMarkets ==
  /\ pc = "batch"
  /\ \E sorted \in filterRecentMarkets(markets, now) : processed' = sorted
  /\ thrown' = "none"
  /\ ran' = "filterRecentMarkets"
  /\ pc' = "done"
  /\ UNCHANGED <<gamma, markets, random, options, previous, now, priceHistory, response,
                 fetched, dashboard, inFlight>>

\* sortAndReturnMarkets(markets, description): a.question.toLowerCase() throws
\* for a market without question once the comparator is called
SortAndReturnMarkets ==
  /\ pc = "batch"
  /\ IF Len(markets) > 1 /\ \E i \in 1..Len(markets) : markets[i].question.t # "string"
     THEN processed' = <<>> /\ thrown' = "TypeError"
     ELSE /\ \E sorted \in sortAndReturnMarkets(markets, now) : processed' = sorted
          /\ thrown' = "none"
  /\ ran' = "sortAndReturnMarkets"
  /\ pc' = "done"
  /\ UNCHANGED <<gamma, markets, random, options, previous, now, priceHistory, response,
                 fetched, dashboard, inFlight>>

InitClob ==
  /\ pc = "batch"
  /\ gamma = BaseGamma
  /\ markets \in ClobBatches
  /\ random = <<>>
  /\ processed = <<>>
  /\ thrown = "none"
  /\ ran = "none"
  /\ options = DefaultOptions
  /\ previous = <<>>
  /\ now = Clock
  /\ priceHistory = Undefined
  /\ DashboardAtRest

NextClob == FilterRecentMarkets \/ SortAndReturnMarkets

SpecClob == InitClob /\ [][NextClob]_vars

(***************************************************************************)
(* Properties                                                              *)
(***************************************************************************)
\* the call of the named function has returned
Done(name) == pc = "done" /\ ran = name /\ thrown = "none"

\* C1: every record processRealMarketData returns has low <= currentPrice <= high
\* and movement = high - low in its rounded fields, whatever the token list and
\* the random draw
C1_PriceBetweenLowAndHigh ==
  Done("processRealMarketData") =>
    \A i \in 1..Len(processed) :
      /\ processed[i].low <= processed[i].currentPrice
      /\ processed[i].currentPrice <= processed[i].high
      /\ processed[i].movement = processed[i].high - processed[i].low

\* C2: every record processRealMarketData returns has 0 <= low <= high <= 1,
\* whatever the token prices and the random draw
C2_BoundsInsideUnitInterval ==
  Done("processRealMarketData") =>
    \A i \in 1..Len(processed) :
      /\ 0 <= processed[i].low
      /\ processed[i].low <= processed[i].high
      /\ processed[i].high <= One

\* what the claims call the strict tier and the relaxed tier of a batch
hasQuestionAndId(market) == Truthy(market.question) /\ Truthy(market.condition_id)
inStrictTier(market) ==
  hasQuestionAndId(market) /\ market.closed # True /\ market.archived # True
inRelaxedTier(market) == hasQuestionAndId(market) /\ market.archived # True

strictPositions == {i \in 1..Len(markets) : inStrictTier(markets[i])}
relaxedPositions == {i \in 1..Len(markets) : inRelaxedTier(markets[i])}

\* the processed sequence holds exactly one record for each of the positions
outputIsExactly(positions) ==
  /\ Len(processed) = Cardinality(positions)
  /\ \A i \in positions :
       Cardinality({j \in 1..Len(processed) :
                      /\ processed[j].id = markets[i].condition_id
                      /\ processed[j].question = markets[i].question}) = 1

\* C3 (as stated): whenever the strict tier selects n > 0 records, either variant
\* of processRealMarketData returns exactly those n records
C3_StrictTierNeverFallsThrough ==
  ((Done("processRealMarketData") \/ Done("processRealMarketDataOld"))
     /\ strictPositions # {})
    => outputIsExactly(strictPositions)

\* C3 (amended): the current variant returns exactly the strict tier's records;
\* the older variant does so when the strict tier selects at least MinStrict
\* records, and returns the relaxed tier's records when it selects fewer
C3_StrictTierFromMinStrict ==
  /\ Done("processRealMarketData") => outputIsExactly(strictPositions)
  /\ (Done("processRealMarketDataOld") /\ Cardinality(strictPositions) >= MinStrict)
       => outputIsExactly(strictPositions)
  /\ (Done("processRealMarketDataOld") /\ Cardinality(strictPositions) < MinStrict)
       => outputIsExactly(relaxedPositions)

\* the older variant kept to MinStrict strict records although the batch holds a
\* closed record the relaxed tier would add
C3_Witness ==
  /\ Done("processRealMarketDataOld")
  /\ Cardinality(strictPositions) >= MinStrict
  /\ relaxedPositions # strictPositions
  /\ Len(processed) = Cardinality(strictPositions)

completePositions == {i \in 1..Len(markets) : hasQuestionAndId(markets[i])}

encounter(rec) == CHOOSE i \in 1..Len(markets) : MarketId(i) = rec.id

\* C6: the sequence processRealMarketData and filterAndSortMarkets return is
\* non-increasing in movement, records of equal movement keep the order in which
\* the input holds them, and processRealMarketData returns every processed record
C6_StableDescendingByMovement ==
  /\ (Done("processRealMarketData") \/ Done("filterAndSortMarkets")) =>
       \A i, j \in 1..Len(processed) :
         i < j =>
           /\ processed[i].movement >= processed[j].movement
           /\ processed[i].movement = processed[j].movement
                => encounter(processed[i]) < encounter(processed[j])
  /\ Done("processRealMarketData") => Len(processed) = Len(markets)

\* processRealMarketData moved a record forward past one of smaller movement and
\* returned two records of equal movement
C6_Witness ==
  /\ Done("processRealMarketData")
  /\ \E i, j \in 1..Len(processed) :
       i < j /\ processed[i].movement = processed[j].movement
  /\ \E i, j \in 1..Len(processed) :
       i < j /\ encounter(processed[i]) > encounter(processed[j])

\* the lower-cased text of a string, {label} or {slug} tag entry, empty for others
tagText(tag) ==
  CASE tag.t = "string" -> toLowerCase(tag.s)
    [] tag.t = "object" /\ tag.label.t = "string" -> toLowerCase(tag.label.s)
    [] tag.t = "object" /\ tag.slug.t = "string" -> toLowerCase(tag.slug.s)
    [] OTHER -> <<>>

isUsableTag(tag) ==
  tagText(tag) \notin {<<>>, <<"a", "l", "l">>, <<"o", "t", "h", "e", "r">>}

usableTagsOf(market) == SelectSeq(TagItems(market), isUsableTag)

\* C7: when a market has a tag whose lower-cased form is neither "all" nor
\* "other", the category processRealMarketData gives it is the lower-cased form
\* of the first such tag
C7_FirstUsableTagWins ==
  (Done("processRealMarketData") /\ Len(processed) = 1
     /\ usableTagsOf(markets[1]) # <<>>)
    => processed[1].category = tagText(usableTagsOf(markets[1])[1])

\* the category filters of the Dashboard other than "all"
categories ==
  {<<"p", "o", "l", "i", "t", "i", "c", "s">>,
   <<"s", "p", "o", "r", "t", "s">>,
   <<"c", "r", "y", "p", "t", "o">>,
   <<"e", "n", "t", "e", "r", "t", "a", "i", "n", "m", "e", "n", "t">>,
   <<"t", "e", "c", "h", "n", "o", "l", "o", "g", "y">>,
   <<"f", "i", "n", "a", "n", "c", "e">>,
   <<"w", "e", "a", "t", "h", "e", "r">>,
   <<"o", "t", "h", "e", "r">>}

\* C8: every record processRealMarketData returns has a category among the
\* Dashboard's category filters
C8_CategoryInClosedSet ==
  Done("processRealMarketData") =>
    \A i \in 1..Len(processed) : processed[i].category \in categories

\* C9: neither normalizeMarket nor processRealMarketData raises an exception,
\* whatever the sub-fields of the record
C9_NeverRaises == thrown = "none"

\* the number a price stands for: a string is parsed, anything else is itself
priceNumber(v) == IF v.t = "string" THEN parseFloat(v, PriceDecimals) ELSE v

isUnitPrice(v) == v.t = "number" /\ 0 <= v.n /\ v.n <= One

\* C10: after normalizeMarket and after processRealMarketData, token i carries the
\* price p whenever the raw price at index i parses to a number p in [0,1]
C10_PricesPreserved ==
  (thrown = "none" /\ ran \in {"normalizeMarket", "processRealMarketData"}
     /\ parsedPrices(gamma).t = "array") =>
    LET tokens == IF ran = "normalizeMarket" THEN markets[1].tokens.items
                  ELSE IF processed = <<>> THEN <<>> ELSE processed[1].tokens
    IN \A i \in 1..Len(tokens) :
         (i <= Len(parsedPrices(gamma).items)
            /\ isUnitPrice(priceNumber(parsedPrices(gamma).items[i])))
           => priceNumber(tokens[i].price) = priceNumber(parsedPrices(gamma).items[i])

\* the tokens of a raw record that carry a price
pricedTokens(market) == SelectSeq(TokenItems(market), hasPrice)

isYesLike(token) ==
  /\ token.outcome.t = "string"
  /\ \/ includes(toLowerCase(token.outcome.s), <<"y", "e", "s">>)
     \/ includes(toLowerCase(token.outcome.s), <<"w", "i", "n">>)

\* the first token whose outcome contains "yes" or "win", else the first token
primaryOf(tokens) ==
  IF \E i \in 1..Len(tokens) : isYesLike(tokens[i])
  THEN tokens[CHOOSE i \in 1..Len(tokens) :
                isYesLike(tokens[i]) /\ \A j \in 1..(i - 1) : ~isYesLike(tokens[j])]
  ELSE tokens[1]

\* C11: the currentPrice of a processed market is the price of its primary token
\* rounded to 4 decimals, whenever that price is a number or parses to one; a
\* primary token priced 0 gives currentPrice 0
C11_CurrentPriceOfPrimaryToken ==
  (Done("processRealMarketData") /\ Len(processed) = 1
     /\ pricedTokens(markets[1]) # <<>>
     /\ priceNumber(primaryOf(pricedTokens(markets[1])).price).t = "number")
    => processed[1].currentPrice
         = Round4(priceNumber(primaryOf(pricedTokens(markets[1])).price).n)

synthesizedTokens ==
  <<[outcome |-> Str(<<"Y", "e", "s">>), price |-> Num(Half), winner |-> Undefined]>>

\* C12: every record either variant of processRealMarketData returns has at least
\* one token, and when the raw record has no token with a price its tokens are
\* exactly one entry with outcome "Yes" and price 0.5
C12_SynthesizedToken ==
  ((Done("processRealMarketData") \/ Done("processRealMarketDataOld"))
     /\ Len(processed) = 1)
    => /\ Len(processed[1].tokens) >= 1
       /\ pricedTokens(markets[1]) = <<>> => processed[1].tokens = synthesizedTokens

\* the current variant processed a record whose tokens all lack a price
C12_Witness ==
  /\ Done("processRealMarketData")
  /\ Len(processed) = 1
  /\ Len(TokenItems(markets[1])) >= 1
  /\ pricedTokens(markets[1]) = <<>>
  /\ processed[1].tokens = synthesizedTokens

\* the raw record an output record was made from
rawOf(rec) == markets[CHOOSE i \in 1..Len(markets) : markets[i].condition_id = rec.id]

\* C18: every record processRealMarketData returns comes from a raw record with
\* active # false and archived # true
C18_OnlyActiveNonArchived ==
  Done("processRealMarketData") =>
    \A j \in 1..Len(processed) :
      /\ rawOf(processed[j]).active # False
      /\ rawOf(processed[j]).archived # True

\* the volume figure a raw Gamma market carries, in cents: a number or a numeric
\* string, from volume24hr before volumeNum; NaN when it carries none
realVolume(market) ==
  IF parseFloat(market.volume24hr, VolumeDecimals).t = "number"
  THEN parseFloat(market.volume24hr, VolumeDecimals)
  ELSE parseFloat(market.volumeNum, VolumeDecimals)

\* C19: volume24h is not negative, it is the floored real volume whenever the raw
\* record carries one, a real 0 included, and otherwise lies in [5000, 55000)
C19_RealVolumeKept ==
  (Done("processRealMarketData") /\ Len(processed) = 1) =>
    /\ processed[1].volume24h >= 0
    /\ realVolume(gamma).t = "number"
         => processed[1].volume24h = Floor(realVolume(gamma).n)
    /\ realVolume(gamma).t # "number"
         => (5000 * 100 <= processed[1].volume24h /\ processed[1].volume24h < 55000 * 100)

\* what identifies a processed record
identityOf(rec) == <<rec.id, rec.question, rec.category>>

identitiesOf(recs) == {identityOf(recs[i]) : i \in 1..Len(recs)}

\* C20: two calls of processRealMarketData on the same markets return records
\* with the same ids, questions and categories, and as many of them, whatever
\* Math.random() returns in either call
C20_SameRecordsOnReprocessing ==
  (pc = "again" /\ thrown = "none") =>
    /\ Len(processed) = Len(previous)
    /\ identitiesOf(processed) = identitiesOf(previous)

\* the second call returned the two records in the other order and with other
\* volumes than the first
C20_Witness ==
  /\ pc = "again"
  /\ thrown = "none"
  /\ Len(processed) = 2
  /\ processed[1].id # previous[1].id
  /\ \E i, j \in 1..2 :
       /\ processed[i].id = previous[j].id
       /\ processed[i].volume24h # previous[j].volume24h

\* the conditions of filterAndSortMarkets other than the two thresholds
passesFlags(market) ==
  /\ ~Truthy(market.isResolvingSoon)
  /\ ~Truthy(market.closed)
  /\ ~Truthy(market.archived)
  /\ Truthy(market.active)

isKept(market) == \E j \in 1..Len(processed) : processed[j].id = market.id

\* C17: with the default options filterAndSortMarkets keeps a market exactly
\* when its volume is at least $50 and its movement at least 0.005, the
\* market being active, not closed, not archived and not resolving soon
C17_KeptFromReadmeThresholds ==
  (pc = "done" /\ ran = "filterAndSortMarkets" /\ options = DefaultOptions) =>
    \A i \in 1..Len(markets) :
      isKept(markets[i]) <=>
        /\ passesFlags(markets[i])
        /\ markets[i].volume24hr >= ReadmeMinimumVolume
        /\ markets[i].movement >= ReadmeMinimumMovement

\* the end date is a date and lies between `clock` and 24 hours after it
endsWithinDay(endDate, clock) ==
  /\ parseISO(endDate).t = "number"
  /\ parseISO(endDate).n >= clock
  /\ parseISO(endDate).n <= clock + 24 * 3600

\* C16: with excludeResolvingSoon, no market that came through normalizeMarket
\* (its end date is under end_date_iso), processMarket and filterAndSortMarkets
\* and ends within 24 hours of now is in the result
C16_NoMarketResolvingSoon ==
  (pc = "done" /\ ran = "filterAndSortMarkets" /\ options.excludeResolvingSoon) =>
    \A j \in 1..Len(processed) :
      "end_date_iso" \in DOMAIN processed[j] =>
        ~endsWithinDay(processed[j].end_date_iso, now)

\* the request succeeded and brought no market: no data, no event, or events
\* without markets
emptyUpstream ==
  /\ response.ok
  /\ response.data.t \in {"undefined", "array"}
  /\ \A e \in 1..Len(response.data.items) :
       response.data.items[e].markets.t = "array" => response.data.items[e].markets.items = <<>>

\* C13: when the request succeeds and brings no market, fetchMarkets returns an
\* empty array and the run ends with error null and an empty list
C13_EmptyUpstreamIsNoFailure ==
  /\ (pc = "settled" /\ emptyUpstream) => (~fetched.threw /\ fetched.value = <<>>)
  /\ (pc = "idle" /\ ran = "fetchMarketData" /\ emptyUpstream) =>
       (dashboard.error = Null /\ dashboard.markets = <<>>)

isConnectCode(code) == code \in {"ENOTFOUND", "ECONNREFUSED"}

startsWith(text, prefix) ==
  Len(text) >= Len(prefix) /\ SubSeq(text, 1, Len(prefix)) = prefix

\* C14: a failure of fetchMarkets carries one of the four messages, chosen by the
\* error code first, then status 429, then a status of 500 or more, else
\* "Failed to fetch markets"; the message is never the raw one of the request
C14_FailuresAreTyped ==
  (pc = "settled" /\ fetched.threw) =>
    /\ isConnectCode(response.code) => fetched.message = ConnectMessage
    /\ (~isConnectCode(response.code) /\ response.status = 429) =>
         fetched.message = RateLimitMessage
    /\ (~isConnectCode(response.code) /\ response.status # 429 /\ response.status >= 500
          /\ ~response.ok) =>
         fetched.message = ServerMessage
    /\ (response.ok \/ (~isConnectCode(response.code) /\ response.status # 429
                          /\ response.status < 500)) =>
         startsWith(fetched.message, FailedPrefix)
    /\ fetched.message # response.message
    /\ fetched.value = <<>>

\* a failed request with both a connection code and status 429 is reported as a
\* connection failure
C14_Witness ==
  /\ pc = "settled"
  /\ fetched.threw
  /\ response.code = "ECONNREFUSED"
  /\ response.status = 429
  /\ fetched.message = ConnectMessage

\* C15: when a run of fetchMarketData fails, the market list after the run is
\* the sample data
C15_FailureShowsSampleData ==
  (pc = "idle" /\ ran = "fetchMarketData" /\ dashboard.error # Null) =>
    dashboard.markets = sampleData(now)

\* the market passes every filter of filterAndSortMarkets under the options in use
isEligible(market) ==
  /\ passesFlags(market)
  /\ market.movement >= options.minimumMovement
  /\ market.volume24hr >= options.minimumVolume

\* C29: filterAndSortMarkets returns at most `limit` records, and an eligible
\* market that is missing from the result moves no more than any record in it
C29_LimitKeepsHighestMovement ==
  (pc = "done" /\ ran = "filterAndSortMarkets") =>
    /\ Len(processed) <= options.limit
    /\ \A i \in 1..Len(markets) :
         (isEligible(markets[i]) /\ ~isKept(markets[i])) =>
           \A j \in 1..Len(processed) : markets[i].movement <= processed[j].movement

\* the limit cut off an eligible market that moves less than a kept one and
\* that came earlier in the input
C29_Witness ==
  /\ pc = "done"
  /\ ran = "filterAndSortMarkets"
  /\ Len(processed) = options.limit
  /\ \E i \in 1..Len(markets) :
       /\ isEligible(markets[i])
       /\ ~isKept(markets[i])
       /\ \E k \in (i + 1)..Len(markets) :
            isKept(markets[k]) /\ markets[i].movement < markets[k].movement

\* C27: a record returned by processMarket has low <= currentPrice <= high,
\* movement = high - low and movement >= 0
C27_AnalyzedPriceInsideRange ==
  (pc = "analyzed" /\ ran = "processMarket") =>
    /\ markets[1].low <= markets[1].currentPrice
    /\ markets[1].currentPrice <= markets[1].high
    /\ markets[1].movement = markets[1].high - markets[1].low
    /\ markets[1].movement >= 0

samplePrice(sample) == parseFloat(sample.price, PriceDecimals).n

isLatest(history, i) == \A j \in 1..Len(history) : history[j].timestamp.n <= history[i].timestamp.n

maxPrice(history) ==
  CHOOSE p \in {samplePrice(history[i]) : i \in 1..Len(history)} :
    \A i \in 1..Len(history) : samplePrice(history[i]) <= p

minPrice(history) ==
  CHOOSE p \in {samplePrice(history[i]) : i \in 1..Len(history)} :
    \A i \in 1..Len(history) : samplePrice(history[i]) >= p

\* C28: for a non-empty history calculatePriceMovement returns, rounded to 4
\* decimals, high = the largest price, low = the smallest, currentPrice = the
\* price of a sample with the latest timestamp, and movement = high - low; a
\* second call on the samples in another order returns the same; an empty or
\* absent history gives four zeros
C28_MovementOfHistory ==
  /\ (pc \in {"done", "again"} /\ ran = "calculatePriceMovement"
        /\ priceHistory # Undefined /\ priceHistory # <<>>) =>
       /\ processed[1].high = Num(Round4(maxPrice(priceHistory)))
       /\ processed[1].low = Num(Round4(minPrice(priceHistory)))
       /\ processed[1].movement = Num(processed[1].high.n - processed[1].low.n)
       /\ \E i \in 1..Len(priceHistory) :
            /\ isLatest(priceHistory, i)
            /\ processed[1].currentPrice = Num(Round4(samplePrice(priceHistory[i])))
  /\ (pc = "again" /\ ran = "calculatePriceMovement") => processed = previous
  /\ (pc \in {"done", "again"} /\ ran = "calculatePriceMovement"
        /\ (priceHistory = Undefined \/ priceHistory = <<>>)) =>
       processed[1] = [high |-> Num(0), low |-> Num(0), movement |-> Num(0),
                       currentPrice |-> Num(0)]

\* C21: at most one run of fetchMarketData is in flight; while it is, loading is
\* true, so no other run can start, and the market list is still the one the
\* run found
C21_OneRunInFlight ==
  /\ inFlight <= 1
  /\ inFlight = 1 => (dashboard.loading /\ dashboard.markets = previous)

\* a Refresh after a run that showed markets: the request is out and the list
\* is still on the state
C21_Witness ==
  /\ inFlight = 1
  /\ pc = "requesting"
  /\ previous # <<>>
  /\ dashboard.lastUpdated # Null

idsOf(records) == {records[i].id : i \in 1..Len(records)}

\* the positions of the fetched markets that are neither closed nor archived
openOf(raws) == {k \in 1..Len(raws) : raws[k].closed # True /\ raws[k].archived # True}

openIdsOf(raws) == {raws[i].condition_id : i \in openOf(raws)}

\* C22: after a run the market list is what this run produced: the records of
\* the open markets it fetched, one for each, or after a failure the empty list or
\* the sample data
C22_ListReplacedByRun ==
  (pc = "idle" /\ ran = "fetchMarketData") =>
    IF dashboard.error = Null
    THEN /\ idsOf(dashboard.markets) = openIdsOf(fetched.value)
         /\ Len(dashboard.markets) = Cardinality(openOf(fetched.value))
    ELSE dashboard.markets \in {<<>>, sampleData(now)}

\* a run that fetched fewer markets than the one before: a record of the earlier
\* list is gone
C22_Witness ==
  /\ pc = "idle"
  /\ ran = "fetchMarketData"
  /\ dashboard.error = Null
  /\ dashboard.markets # <<>>
  /\ \E i \in 1..Len(previous) : previous[i].id \notin idsOf(dashboard.markets)

\* C30: a run in flight ends, with loading false; and after a run either error
\* is null and isUsingRealData true, the fetch and the processing having
\* succeeded, or error is set and isUsingRealData false
C30_RunsEndInOneOutcome ==
  /\ (inFlight = 1) ~> (inFlight = 0 /\ ~dashboard.loading)
  /\ [](pc = "idle" =>
          \/ dashboard.error = Null /\ dashboard.isUsingRealData /\ ~fetched.threw
          \/ dashboard.error # Null /\ ~dashboard.isUsingRealData)

\* a run whose fetch succeeded and whose processing threw: isUsingRealData was
\* set to true and is false at the end
C30_Witness ==
  /\ pc = "idle"
  /\ ~dashboard.loading
  /\ ~fetched.threw
  /\ dashboard.error = Str(TypeErrorMessage)
  /\ ~dashboard.isUsingRealData

\* C23: the ids of the records on the state after a successful run are pairwise
\* distinct, whatever the events the request returned
C23_RowKeysDistinct ==
  (pc = "idle" /\ ran = "fetchMarketData" /\ dashboard.error = Null) =>
    \A i, j \in 1..Len(dashboard.markets) :
      i # j => dashboard.markets[i].id # dashboard.markets[j].id

sortAndReturnMarketsReturned ==
  pc = "done" /\ ran = "sortAndReturnMarkets" /\ thrown = "none"

\* a comes first in the order the fallback selection states: the higher score;
\* with equal scores and two end dates the future one, and of two future ones
\* the sooner; with equal scores and equal end dates the open one
mayPrecede(a, b, clock) ==
  LET aScore == scoreOf(a, currentKeywords)
      bScore == scoreOf(b, currentKeywords)
      aDate == newDate(a.end_date_iso)
      bDate == newDate(b.end_date_iso)
  IN
  /\ aScore >= bScore
  /\ (aScore = bScore /\ Truthy(a.end_date_iso) /\ Truthy(b.end_date_iso)) =>
       /\ ~(isNotAfter(aDate, clock) /\ isAfter(bDate, clock))
       /\ (isAfter(aDate, clock) /\ isAfter(bDate, clock)) => aDate.n <= bDate.n
  /\ (aScore = bScore /\ a.end_date_iso = b.end_date_iso) =>
       ~(Truthy(a.closed) /\ ~Truthy(b.closed))

\* C24: in what sortAndReturnMarkets returns every market may precede the
\* markets after it
C24_SortedByScoreDateOpen ==
  sortAndReturnMarketsReturned =>
    \A i, j \in 1..Len(processed) : i < j => mayPrecede(processed[i], processed[j], now)

\* the comparator orders the entries: of cmp(a, b) and cmp(b, a) one is negative
\* exactly when the other is positive, and less-than and equality are transitive
isStrictWeakOrder(order, n) ==
  \A i, j, k \in 1..n :
    /\ order[i][j] < 0 <=> order[j][i] > 0
    /\ (order[i][j] < 0 /\ order[j][k] < 0) => order[i][k] < 0
    /\ (order[i][j] = 0 /\ order[j][k] = 0) => order[i][k] = 0

endDateOrder(ms, clock) ==
  asTuple([i \in 1..Len(ms) |->
             asTuple([j \in 1..Len(ms) |-> compareMarkets(ms[i], ms[j], clock)], 1, Len(ms))],
          1, Len(ms))

\* C25: on the markets sortAndReturnMarkets was called with, its comparator and
\* the comparator of sortMarkets are antisymmetric and transitive
C25_ComparatorsOrder ==
  sortAndReturnMarketsReturned =>
    /\ isStrictWeakOrder(topicalOrder(markets, now), Len(markets))
    /\ isStrictWeakOrder(endDateOrder(markets, now), Len(markets))

\* the candidates of the capped tier filterRecentMarkets returned from, none
\* when it returned from a tier without cap
cappedCandidates(allMarkets, clock) ==
  IF marketsWithTimeLeft(allMarkets, clock) # <<>> THEN <<>>
  ELSE IF anyFutureMarkets(allMarkets, clock) # <<>> THEN anyFutureMarkets(allMarkets, clock)
  ELSE IF unresolvedMarkets(allMarkets) # <<>> THEN <<>>
  ELSE interestingMarkets(allMarkets)

\* C26: no candidate of a capped tier that filterRecentMarkets left out has a
\* higher keyword score than a market it returned
C26_CapKeepsBestScores ==
  (pc = "done" /\ ran = "filterRecentMarkets") =>
    \A i \in 1..Len(cappedCandidates(markets, now)) :
      LET dropped == cappedCandidates(markets, now)[i]
      IN (\A k \in 1..Len(processed) : processed[k] # dropped) =>
           \A k \in 1..Len(processed) :
             scoreOf(dropped, currentKeywords) <= scoreOf(processed[k], currentKeywords)

====
